---------------------------- MODULE Spec2Model ----------------------------
(***************************************************************************)
(* Model of the fire-event-to-user-event codemod (jscodeshift transform).  *)
(*                                                                         *)
(* A file is a list of import declarations and a list of function-like     *)
(* units (function declarations, function-valued variables, test calls     *)
(* with their callback, other callbacks such as hooks).  A unit's parent   *)
(* is the unit whose body encloses it (0 at top level), so that a          *)
(* jscodeshift `find` below a node visits the unit and all its             *)
(* descendants.  Document order is unit order, then statement order;       *)
(* a nested unit is written after the own statements of its parent.        *)
(*                                                                         *)
(* The source text and the returned text are kept in a printed form (a     *)
(* callee is a dotted path); the tree the transform edits is the parsed    *)
(* form (a callee is an object chain and a property).                      *)
(***************************************************************************)
EXTENDS Integers, Sequences, FiniteSets, TLC

VARIABLES src, tree, pc, queue, modified, output, failed, pass, outputs

vars == <<src, tree, pc, queue, modified, output, failed, pass, outputs>>

(***************************************************************************)
(* Bounds of the model.                                                    *)
(***************************************************************************)
MaxPasses == 2
MaxProps == 1
MaxExtraArgs == 1

(***************************************************************************)
(* Constants of the program.                                               *)
(***************************************************************************)
BASE_RENDER_METHODS == {"renderWithReduxForm", "renderWithRedux", "renderWithTheme"}

POSSIBLE_SUPPORTED_RENDER_METHODS ==
  {"setUp", "setup", "setupTest", "renderComponent",
   "setUpAndRenderComponentWithMockData", "prepareDataAndRender",
   "setUpAndRender", "render", "renderForm"} \cup BASE_RENDER_METHODS

FIRE_EVENT_TO_USER_EVENT_MAP ==
  [m \in {"click", "focus", "mouseDown", "mouseOver", "mouseEnter", "mouseOut",
          "mouseMove", "mouseLeave", "blur", "change", "input", "focusIn",
          "focusOut", "doubleClick", "keyDown", "keyUp"} |->
     CASE m \in {"click", "focus", "mouseDown"} -> "click"
       [] m \in {"mouseOver", "mouseEnter", "mouseMove", "focusIn"} -> "hover"
       [] m \in {"mouseOut", "mouseLeave", "focusOut"} -> "unhover"
       [] m = "blur" -> "blur"
       [] m \in {"change", "input"} -> "advancedType"
       [] m = "doubleClick" -> "dblClick"
       [] m \in {"keyDown", "keyUp"} -> "keyboard"]

specialKeys ==
  {"Enter", "Tab", "Escape", "Backspace", "Delete",
   "ArrowUp", "ArrowDown", "ArrowLeft", "ArrowRight"}

TestingLibraryReact == "@testing-library/react"
TestingLibraryUserEvent == "@testing-library/user-event"
RestElement == "...rest"

(***************************************************************************)
(* AST nodes.  An argument is an expression node: an identifier, a         *)
(* literal, an object literal (shape names its properties, vtype/val the   *)
(* node held by its value/key/code property) or another expression.        *)
(***************************************************************************)
Ident(n) == [type |-> "Identifier", name |-> n, val |-> "", shape |-> "", vtype |-> ""]
StrLit(v) == [type |-> "StringLiteral", name |-> "", val |-> v, shape |-> "", vtype |-> ""]
NumLit(v) == [type |-> "NumericLiteral", name |-> "", val |-> v, shape |-> "", vtype |-> ""]
ObjLit(shape, vtype, v) ==
  [type |-> "ObjectExpression", name |-> IF vtype = "Identifier" THEN v ELSE "",
   val |-> IF vtype = "Identifier" THEN "" ELSE v, shape |-> shape, vtype |-> vtype]
\* `{key: '<key>', code: '<code>'}`: val holds the key's string, name the code's
KeyCodeLit(key, code) ==
  [type |-> "ObjectExpression", name |-> code, val |-> key, shape |-> "key+code",
   vtype |-> "StringLiteral"]
userArg == Ident("user")

\* a statement of the tree: `[await]* object.property(args)` (kind "call") or
\* `const <pat> = [await]* object.property(args)` (kind "decl")
Call(object, property, args, awaits) ==
  [kind |-> "call", awaits |-> awaits, object |-> object, property |-> property,
   args |-> args, pat |-> "", props |-> <<>>]
Decl(pat, props, object, property, args, awaits) ==
  [kind |-> "decl", awaits |-> awaits, object |-> object, property |-> property,
   args |-> args, pat |-> pat, props |-> props]

\* callee.type === 'Identifier' && callee.name === n
CalleeIsIdentifier(s) == s.object = <<>> /\ Len(s.property) = 1
CalleeName(s) == s.property[1]
\* callee: { type: 'MemberExpression', object: { name: n } }
CalleeObjectNamed(s, n) == s.object = <<n>>
PropertyIsIdentifier(s) == Len(s.property) = 1

(***************************************************************************)
(* Printing and parsing.  recast prints a member expression as its object, *)
(* a dot and its property, whatever their shapes; the parser builds member *)
(* expressions nested to the left with an identifier as property.          *)
(***************************************************************************)
PrintStmt(s) ==
  [kind |-> s.kind, awaits |-> s.awaits, callee |-> s.object \o s.property,
   args |-> s.args, pat |-> s.pat, props |-> s.props]

ParseStmt(t) ==
  [kind |-> t.kind, awaits |-> t.awaits,
   object |-> SubSeq(t.callee, 1, Len(t.callee) - 1),
   property |-> <<t.callee[Len(t.callee)]>>,
   args |-> t.args, pat |-> t.pat, props |-> t.props]

MapBodies(file, F(_)) ==
  [file EXCEPT !.units =
     [i \in 1..Len(file.units) |->
        [file.units[i] EXCEPT !.body = [k \in 1..Len(@) |-> F(@[k])]]]]

toSource(t) == MapBodies(t, PrintStmt)
Parse(text) == MapBodies(text, ParseStmt)


(***************************************************************************)
(* Scopes.  A jscodeshift `find` below a node visits the statements of the *)
(* unit and of every unit nested in it.                                    *)
(***************************************************************************)
RECURSIVE IsWithin(_, _, _)
IsWithin(units, j, i) ==
  \/ j = i
  \/ units[j].parent # 0 /\ IsWithin(units, units[j].parent, i)

SubtreeOf(units, i) == {j \in 1..Len(units) : IsWithin(units, j, i)}
AllUnits(units) == 1..Len(units)

\* the positions <<unit, statement>> of a scope
Positions(units, scope) ==
  UNION {{<<i, k>> : k \in 1..Len(units[i].body)} : i \in scope}

MapScope(units, scope, F(_)) ==
  [i \in 1..Len(units) |->
     IF i \in scope
       THEN [units[i] EXCEPT !.body = [k \in 1..Len(@) |-> F(@[k])]]
       ELSE units[i]]

\* the statements of a scope in document order
RECURSIVE FlattenFrom(_, _, _)
FlattenFrom(units, scope, i) ==
  IF i > Len(units) THEN <<>>
  ELSE (IF i \in scope THEN units[i].body ELSE <<>>) \o FlattenFrom(units, scope, i + 1)
ScopeStmts(units, scope) == FlattenFrom(units, scope, 1)

(***************************************************************************)
(* event-utils.ts and target-value-utils                                   *)
(***************************************************************************)
\* a replacement that ignores the mapped method
createClickCall(method, args) == Call(<<"user">>, <<"click">>, args, 1)

createUserEventCall(method, args) == Call(<<"user">>, <<method>>, args, 1)

isTargetValueObject(obj) == obj.type = "ObjectExpression" /\ obj.shape = "target.value"

\* extractValueFromTarget throws unless the value node is a string literal, a
\* numeric literal or an identifier
extractValueThrows(obj) ==
  obj.vtype \notin {"StringLiteral", "NumericLiteral", "Literal", "Identifier"}

extractValueFromTarget(obj) ==
  CASE obj.vtype = "Identifier" -> Ident(obj.name)
    [] obj.vtype = "NumericLiteral" -> NumLit(obj.val)
    [] OTHER -> StrLit(obj.val)

\* !isNaN(Number(v)) over the literal values of the model: Number('') and
\* Number(' ') are 0, Number(undefined) (an identifier node has no value) is NaN
NumericValues == {"", " ", "0", "2", "42", "3.5"}
\* a numeric test that never succeeds
isNeverNumber(value) == FALSE
isNumber(value) == value.type # "Identifier" /\ value.val \in NumericValues

\* a type call without the empty-string case
createTypeCallNeverClears(element, value) ==
  createUserEventCall("advancedType", <<element, value>>)

createUserEventTypeCall(element, value) ==
  IF value.type # "Identifier" /\ value.val = ""
    THEN createUserEventCall("clear", <<element>>)
  ELSE IF isNumber(value)
    THEN createUserEventCall("advancedType", <<element, StrLit(value.val)>>)
  ELSE createUserEventCall("advancedType", <<element, value>>)

\* a key extraction that looks at `code` before `key`
codeFirstValueOf(keyEvent) ==
  IF keyEvent.type # "ObjectExpression" THEN ""
  ELSE IF keyEvent.shape = "key+code" THEN keyEvent.name
  ELSE IF keyEvent.shape \in {"key", "code"} /\ keyEvent.vtype \in {"StringLiteral", "Literal"}
    THEN keyEvent.val
  ELSE ""

keyValueOf(keyEvent) ==
  IF keyEvent.type # "ObjectExpression" THEN ""
  ELSE IF keyEvent.shape \in {"key", "key+code"}
    THEN (IF keyEvent.vtype \in {"StringLiteral", "Literal"} THEN keyEvent.val ELSE "")
  ELSE IF keyEvent.shape = "code"
    THEN (IF keyEvent.vtype \in {"StringLiteral", "Literal"} THEN keyEvent.val ELSE "")
  ELSE ""

createUserEventKeyboardCall(element, keyEvent) ==
  LET keyValue == keyValueOf(keyEvent)
      formattedKey == IF keyValue \in specialKeys THEN "{" \o keyValue \o "}" ELSE keyValue
  IN createUserEventCall("keyboard", <<StrLit(formattedKey)>>)

IsFireEventCall(s) == s.kind = "call" /\ CalleeObjectNamed(s, "fireEvent")
IsMapped(s) == PropertyIsIdentifier(s) /\ s.property[1] \in DOMAIN FIRE_EVENT_TO_USER_EVENT_MAP

\* the branch of replaceFireEventWithUserEvent a fireEvent call takes
ReplaceBranch(s) ==
  IF ~IsFireEventCall(s) \/ ~IsMapped(s) THEN "none"
  ELSE LET method == s.property[1] IN
    IF method \in {"change", "input"} /\ Len(s.args) = 2
      THEN (IF isTargetValueObject(s.args[2])
              THEN (IF extractValueThrows(s.args[2]) THEN "catch" ELSE "type")
              ELSE "fallback")
    ELSE IF method \in {"keyDown", "keyUp"} /\ Len(s.args) = 2 THEN "keyboard"
    ELSE IF Len(s.args) = 1 THEN "direct"
    ELSE "none"

\* the node that replaces the call (the await expression takes the place of the
\* call expression, below whatever already wrapped it)
ReplaceStmt(s) ==
  LET b == ReplaceBranch(s)
      r == CASE b = "type" -> createUserEventTypeCall(s.args[1], extractValueFromTarget(s.args[2]))
             [] b \in {"catch", "fallback", "direct"} ->
                  createUserEventCall(FIRE_EVENT_TO_USER_EVENT_MAP[s.property[1]], s.args)
             [] b = "keyboard" -> createUserEventKeyboardCall(s.args[1], s.args[2])
             [] OTHER -> s
  IN IF b = "none" THEN s ELSE [r EXCEPT !.awaits = s.awaits + 1]

\* the branches that set hasReplacement
SetsHasReplacement(s) == ReplaceBranch(s) \in {"type", "keyboard", "direct"}

\* replaceFireEventWithUserEvent(blockBody, config): the edited units and the flag
replaceFireEventWithUserEvent(units, scope) ==
  [units |-> MapScope(units, scope, ReplaceStmt),
   hasReplacement |-> \E p \in Positions(units, scope) : SetsHasReplacement(units[p[1]].body[p[2]])]

createUserTypeAnnotation == "ExtendedUserEvent"


(***************************************************************************)
(* view-utils.ts and setup-utils                                           *)
(***************************************************************************)
\* const view = <render method>(...): the init is the call itself, not awaited
IsViewDeclaration(s) ==
  /\ s.kind = "decl" /\ s.pat = "Identifier" /\ s.props = <<"view">>
  /\ s.awaits = 0 /\ CalleeIsIdentifier(s)
  /\ CalleeName(s) \in POSSIBLE_SUPPORTED_RENDER_METHODS

\* a search that never finds the view declaration
viewNeverDeclared(units, scope) == FALSE

hasViewDeclarationFromRenderMethods(units, scope) ==
  \E p \in Positions(units, scope) : IsViewDeclaration(units[p[1]].body[p[2]])

\* user.method(...) becomes a call of the member expression whose object is
\* `view` and whose property is the member expression user.method
PrefixStmt(s) ==
  IF CalleeObjectNamed(s, "user") /\ PropertyIsIdentifier(s)
    THEN [s EXCEPT !.object = <<"view">>, !.property = <<"user", s.property[1]>>]
    ELSE s

\* the second loop: await expressions whose argument is user.method(...)
PrefixAwaitedStmt(s) == IF s.awaits > 0 THEN PrefixStmt(s) ELSE s

prefixUserEventWithView(units, scope) ==
  IF ~hasViewDeclarationFromRenderMethods(units, scope) THEN units
  ELSE MapScope(MapScope(units, scope, PrefixStmt), scope, PrefixAwaitedStmt)

\* properties.some((prop) => prop.key.name === 'user') : a rest element has no
\* key, and reading key.name of it throws
RECURSIVE SomePropIsUser(_, _)
SomePropIsUser(props, k) ==
  IF k > Len(props) THEN "false"
  ELSE IF props[k] = RestElement THEN "throw"
  ELSE IF props[k] = "user" THEN "true"
  ELSE SomePropIsUser(props, k + 1)

RECURSIVE SomeDeclaratorHasUser(_, _)
SomeDeclaratorHasUser(stmts, k) ==
  IF k > Len(stmts) THEN "false"
  ELSE IF stmts[k].kind = "decl" /\ stmts[k].pat = "ObjectPattern"
            /\ SomePropIsUser(stmts[k].props, 1) # "false"
    THEN SomePropIsUser(stmts[k].props, 1)
  ELSE SomeDeclaratorHasUser(stmts, k + 1)

\* "true", "false" or "throw"
hasUserDestructured(units, scope) == SomeDeclaratorHasUser(ScopeStmts(units, scope), 1)

IsSetupCall(s) == CalleeIsIdentifier(s) /\ CalleeName(s) \in POSSIBLE_SUPPORTED_RENDER_METHODS

\* an edit of the declarator that rebuilds the init from the bare call
declaratorSetupWithoutAwait(s) ==
  [s EXCEPT !.pat = "ObjectPattern", !.props = Append(@, "user"), !.awaits = 0]

\* the declarator's pattern gains `user` (the init keeps its await)
handleVariableDeclaratorSetup(s) ==
  IF s.pat = "ObjectPattern"
    THEN (IF \E k \in 1..Len(s.props) : s.props[k] = "user"
            THEN s ELSE [s EXCEPT !.props = Append(@, "user")])
  ELSE IF s.pat = "Identifier"
    THEN [s EXCEPT !.pat = "ObjectPattern", !.props = <<"user">> \o @]
  ELSE s

\* await setup() as a statement of its own becomes const { user } = await setup()
handleDirectAwaitSetup(s) ==
  Decl("ObjectPattern", <<"user">>, s.object, s.property, s.args, 1)

SetupStmt(s) ==
  IF ~IsSetupCall(s) THEN s
  ELSE IF s.kind = "decl" THEN handleVariableDeclaratorSetup(s)
  ELSE IF s.awaits > 0 THEN handleDirectAwaitSetup(s)
  ELSE Decl("ObjectPattern", <<"user">>, s.object, s.property, s.args, 0)

getUserFromSetupThrows(units, scope) == hasUserDestructured(units, scope) = "throw"

getUserFromSetup(units, scope) ==
  IF hasUserDestructured(units, scope) = "true" THEN units
  ELSE MapScope(units, scope, SetupStmt)

(***************************************************************************)
(* helper-function-utils                                                   *)
(***************************************************************************)
isSetupFunction(name) == name \in POSSIBLE_SUPPORTED_RENDER_METHODS

IsFunctionUnit(u) == u.kind \in {"FunctionDeclaration", "VariableDeclarator"}

\* a scan that never finds the parameter it added
userParamNeverFound(u) == FALSE

userParamExists(u) == \E k \in 1..Len(u.params) : u.params[k].name = "user"

ContainsFireEvent(units, i) ==
  \E p \in Positions(units, SubtreeOf(units, i)) : IsFireEventCall(units[p[1]].body[p[2]])

\* the paths a loop of handleHelperFunctions keeps: find and filter run before
\* the loop's forEach
HelperCandidates(units, kind) ==
  {i \in 1..Len(units) :
     /\ units[i].kind = kind
     /\ ~isSetupFunction(units[i].name)
     /\ ContainsFireEvent(units, i)}

\* the body of the forEach of one helper
ModifyHelper(units, i) ==
  IF userParamExists(units[i]) THEN units
  ELSE
    LET withParam == [units EXCEPT ![i].params =
                        Append(@, [name |-> "user", type |-> createUserTypeAnnotation])]
        isBlock == units[i].bodyType = "BlockStatement"
        rep == replaceFireEventWithUserEvent(withParam, SubtreeOf(units, i))
        prefixed == prefixUserEventWithView(rep.units, SubtreeOf(units, i))
    IN IF ~isBlock THEN withParam
       ELSE IF rep.hasReplacement THEN [prefixed EXCEPT ![i].async = TRUE]
       ELSE prefixed

RECURSIVE ForEachHelper(_, _, _)
ForEachHelper(units, paths, i) ==
  IF i > Len(units) THEN units
  ELSE ForEachHelper(IF i \in paths THEN ModifyHelper(units, i) ELSE units, paths, i + 1)

HasUserParamNames(units) ==
  {units[i].name : i \in {j \in 1..Len(units) : IsFunctionUnit(units[j]) /\ userParamExists(units[j])}}

AsyncUserParamNames(units) ==
  {units[i].name : i \in {j \in 1..Len(units) :
      IsFunctionUnit(units[j]) /\ userParamExists(units[j]) /\ units[j].async}}

HasUserArgument(s) == \E k \in 1..Len(s.args) : s.args[k].type = "Identifier" /\ s.args[k].name = "user"

isAlreadyAwaited(s) == s.awaits > 0

UpdateCallStmt(s, names, asyncNames) ==
  IF ~(CalleeIsIdentifier(s) /\ CalleeName(s) \in names) THEN s
  ELSE
    LET withUser == IF HasUserArgument(s) THEN s ELSE [s EXCEPT !.args = Append(@, userArg)]
    IN IF CalleeName(s) \in asyncNames /\ ~isAlreadyAwaited(s)
         THEN [withUser EXCEPT !.awaits = @ + 1] ELSE withUser

updateHelperFunctionCalls(units) ==
  LET names == HasUserParamNames(units)
      asyncNames == AsyncUserParamNames(units)
  IN MapScope(units, AllUnits(units), LAMBDA s : UpdateCallStmt(s, names, asyncNames))

handleHelperFunctions(units) ==
  LET declPaths == HelperCandidates(units, "FunctionDeclaration")
      afterDecls == ForEachHelper(units, declPaths, 1)
      varPaths == HelperCandidates(afterDecls, "VariableDeclarator")
      afterVars == ForEachHelper(afterDecls, varPaths, 1)
      modifiedAnyFunction ==
        \/ \E i \in declPaths : ~userParamExists(units[i])
        \/ \E i \in varPaths : ~userParamExists(afterDecls[i])
  IN [units |-> IF modifiedAnyFunction THEN updateHelperFunctionCalls(afterVars) ELSE afterVars,
      modifiedAnyFunction |-> modifiedAnyFunction]

IdentifyStmt(s, names) ==
  IF CalleeIsIdentifier(s) /\ CalleeName(s) \in names /\ ~HasUserArgument(s)
    THEN [s EXCEPT !.args = Append(@, userArg)] ELSE s

identifyAndUpdateHelperFunctionCalls(units, scope) ==
  LET names == HasUserParamNames(units)
  IN [units |-> MapScope(units, scope, LAMBDA s : IdentifyStmt(s, names)),
      hasUpdated |-> \E p \in Positions(units, scope) :
                        IdentifyStmt(units[p[1]].body[p[2]], names) # units[p[1]].body[p[2]]]


(***************************************************************************)
(* test-utils: handleTestCallback                                          *)
(***************************************************************************)
IsFunctionNode(u) == u.fn \in {"FunctionExpression", "ArrowFunctionExpression"}

\* callback.body.type === 'BlockStatement' ? callback.body.body : []
CallbackScope(units, i) ==
  IF units[i].bodyType = "BlockStatement" THEN SubtreeOf(units, i) ELSE {}

addAsyncToCallback(units, i) == [units EXCEPT ![i].async = TRUE]

\* the edits of handleTestCallback up to the call of getUserFromSetup
BeforeGetUser(units, i) ==
  LET scope == CallbackScope(units, i)
      rep == replaceFireEventWithUserEvent(units, scope)
      prefixed == prefixUserEventWithView(rep.units, scope)
      idf == identifyAndUpdateHelperFunctionCalls(prefixed, scope)
  IN [units |-> idf.units,
      proceed |-> rep.hasReplacement \/ idf.hasUpdated]

handleTestCallbackThrows(units, i) ==
  LET scope == CallbackScope(units, i)
      b == BeforeGetUser(units, i)
  IN /\ IsFunctionNode(units[i])
     /\ b.proceed
     /\ ~hasViewDeclarationFromRenderMethods(b.units, scope)
     /\ getUserFromSetupThrows(b.units, scope)

handleTestCallback(units, i) ==
  IF ~IsFunctionNode(units[i]) THEN units
  ELSE
    LET scope == CallbackScope(units, i)
        b == BeforeGetUser(units, i)
    IN IF ~b.proceed THEN b.units
       ELSE IF handleTestCallbackThrows(units, i) THEN b.units
       ELSE addAsyncToCallback(
              IF hasViewDeclarationFromRenderMethods(b.units, scope)
                THEN b.units ELSE getUserFromSetup(b.units, scope), i)

(***************************************************************************)
(* import-utils                                                            *)
(***************************************************************************)
HasSpecifier(decl, name) == \E k \in 1..Len(decl.specifiers) : decl.specifiers[k] = name

RemoveFirst(seq, x) ==
  LET k == CHOOSE j \in 1..Len(seq) : seq[j] = x /\ \A h \in 1..(j - 1) : seq[h] # x
  IN SubSeq(seq, 1, k - 1) \o SubSeq(seq, k + 1, Len(seq))

\* a removal that does not look for remaining references
fireEventNeverUsed(file) == FALSE

\* an identifier named fireEvent whose parent is not an import specifier
fireEventIsUsed(file) ==
  \E p \in Positions(file.units, AllUnits(file.units)) :
     LET s == file.units[p[1]].body[p[2]]
     IN \/ \E k \in 1..Len(s.object) : s.object[k] = "fireEvent"
        \/ \E k \in 1..Len(s.property) : s.property[k] = "fireEvent"
        \/ \E k \in 1..Len(s.args) : s.args[k].type = "Identifier" /\ s.args[k].name = "fireEvent"

\* a removal that empties the declaration
RemoveAllSpecifiersOf(decl, used) ==
  IF decl.source = TestingLibraryReact /\ HasSpecifier(decl, "fireEvent") /\ ~used
    THEN [decl EXCEPT !.specifiers = <<>>]
    ELSE decl

RemoveSpecifierOf(decl, used) ==
  IF decl.source = TestingLibraryReact /\ HasSpecifier(decl, "fireEvent") /\ ~used
    THEN [decl EXCEPT !.specifiers = RemoveFirst(@, "fireEvent")]
    ELSE decl

RECURSIVE DropEmptied(_, _, _)
DropEmptied(before, after, k) ==
  IF k > Len(after) THEN <<>>
  ELSE (IF after[k].specifiers = <<>> /\ before[k] # after[k] THEN <<>> ELSE <<after[k]>>)
       \o DropEmptied(before, after, k + 1)

removeFireEventImport(file) ==
  LET used == fireEventIsUsed(file)
      edited == [k \in 1..Len(file.imports) |-> RemoveSpecifierOf(file.imports[k], used)]
  IN [file EXCEPT !.imports = DropEmptied(file.imports, edited, 1)]

ExtendedUserEventImport == [source |-> TestingLibraryUserEvent, specifiers |-> <<"ExtendedUserEvent">>]

\* an import step that always writes a declaration of its own
prependUserEventImport(shouldImportExtendedUserEvent, file) ==
  IF ~shouldImportExtendedUserEvent THEN file
  ELSE [file EXCEPT !.imports = <<ExtendedUserEventImport>> \o @]

addUserEventImport(shouldImportExtendedUserEvent, file) ==
  LET userEventImport == {k \in 1..Len(file.imports) : file.imports[k].source = TestingLibraryUserEvent}
      first == CHOOSE k \in userEventImport : \A h \in userEventImport : k <= h
  IN IF ~shouldImportExtendedUserEvent THEN file
     ELSE IF userEventImport # {}
       THEN (IF \E k \in userEventImport : HasSpecifier(file.imports[k], "ExtendedUserEvent")
               THEN file
               ELSE [file EXCEPT !.imports[first].specifiers = Append(@, "ExtendedUserEvent")])
     ELSE [file EXCEPT !.imports = <<ExtendedUserEventImport>> \o @]

(***************************************************************************)
(* The transformer: one pass over a file, and the pass run again on its    *)
(* own output.                                                             *)
(***************************************************************************)
NoOutput == [imports |-> <<>>, units |-> <<>>, none |-> TRUE]

IsItCall(u) == u.kind = "TestCall" /\ u.name = "it"
EachForms == {"it.each()", "it.each-template", "test.each()", "test.each-template", "describe.each()"}
IsEachCall(u) == u.kind = "TestCall" /\ u.name \in EachForms

RECURSIVE Filter(_, _, _)
Filter(units, P(_), i) ==
  IF i > Len(units) THEN <<>>
  ELSE (IF P(units[i]) THEN <<i>> ELSE <<>>) \o Filter(units, P, i + 1)


\* a catch block that prints the tree it was editing
catchPrintsTree(source, t) == toSource(t)

\* what the catch block of the transformer returns
catchReturn(source, t) == source

(***************************************************************************)
(* Input files (printed form).                                             *)
(***************************************************************************)
TCall(callee, args, awaits) ==
  [kind |-> "call", awaits |-> awaits, callee |-> callee, args |-> args,
   pat |-> "", props |-> <<>>]
TDecl(pat, props, callee, args, awaits) ==
  [kind |-> "decl", awaits |-> awaits, callee |-> callee, args |-> args,
   pat |-> pat, props |-> props]

Unit(kind, name, fn, parent, async, params, bodyType, body) ==
  [kind |-> kind, name |-> name, fn |-> fn, parent |-> parent, async |-> async,
   params |-> params, bodyType |-> bodyType, body |-> body]
Param(n) == [name |-> n, type |-> ""]
Import(source, specifiers) == [source |-> source, specifiers |-> specifiers]
File(imports, units) == [imports |-> imports, units |-> units]

TestBlock(form, async, body) ==
  Unit("TestCall", form, "ArrowFunctionExpression", 0, async, <<>>, "BlockStatement", body)
Callback(name, parent, async, body) ==
  Unit("Callback", name, "ArrowFunctionExpression", parent, async, <<>>, "BlockStatement", body)

el == Ident("el")
PropsUpTo == {SubSeq(<<"getByText", "container", "rerender">>, 1, n) : n \in 1..MaxProps}
ExtraArgs == {SubSeq(<<"a", "b", "c">>, 1, n) : n \in 0..MaxExtraArgs}
IdentArgs(names) == [k \in 1..Len(names) |-> Ident(names[k])]
Params(names) == [k \in 1..Len(names) |-> Param(names[k])]

TargetValues ==
  {ObjLit("target.value", "StringLiteral", "abc"), ObjLit("target.value", "StringLiteral", ""),
   ObjLit("target.value", "StringLiteral", "42"), ObjLit("target.value", "NumericLiteral", "42"),
   ObjLit("target.value", "Identifier", "jobTitle"), ObjLit("target.value", "CallExpression", ""),
   ObjLit("target", "", ""), Ident("evt")}
KeyEvents ==
  {ObjLit("key", "StringLiteral", "Enter"), ObjLit("key", "StringLiteral", "a"),
   ObjLit("code", "StringLiteral", "Escape"), ObjLit("key", "Identifier", "k"),
   ObjLit("other", "", ""), Ident("evt"), KeyCodeLit("a", "Enter"), KeyCodeLit("Tab", "KeyA")}

\* every kind of fireEvent call
AllEventCalls ==
  {TCall(<<"fireEvent", m>>, <<el>>, 0) : m \in DOMAIN FIRE_EVENT_TO_USER_EVENT_MAP \cup {"scroll"}}
  \cup {TCall(<<"fireEvent", m>>, <<el, v>>, 0) : m \in {"change", "input"}, v \in TargetValues}
  \cup {TCall(<<"fireEvent", m>>, <<el, v>>, 0) : m \in {"keyDown", "keyUp"}, v \in KeyEvents}
  \cup {TCall(<<"fireEvent", m>>, <<>>, 0) : m \in {"click", "change"}}
  \cup {TCall(<<"fireEvent", "click">>, <<el, Ident("opts")>>, 0)}

\* a few of them, for the files that combine several statements
SomeEventCalls ==
  {TCall(<<"fireEvent", "click">>, <<el>>, 0),
   TCall(<<"fireEvent", "change">>, <<el, Ident("evt")>>, 0),
   TCall(<<"fireEvent", "scroll">>, <<el>>, 0)}

UserCalls ==
  {TCall(<<"user", "click">>, <<el>>, 1), TCall(<<"user", "click">>, <<el>>, 0)}

SetupDecls ==
  {TDecl("ObjectPattern", p, <<f>>, <<>>, w) :
      p \in PropsUpTo, f \in {"setup", "renderWithRedux"}, w \in {0, 1}}
  \cup {TDecl("ObjectPattern", p \o <<"user">>, <<"setup">>, <<>>, 0) : p \in PropsUpTo}
  \cup {TDecl("ObjectPattern", p \o <<RestElement>>, <<"setup">>, <<>>, 0) : p \in PropsUpTo}
  \cup {TDecl("Identifier", <<"view">>, <<"render">>, <<>>, w) : w \in {0, 1}}
  \cup {TDecl("Identifier", <<"result">>, <<"render">>, <<>>, 0),
        TDecl("ObjectPattern", <<"getByText">>, <<"setup">>, <<Ident("props")>>, 1),
        TDecl("ObjectPattern", <<"user">>, <<"other">>, <<>>, 0),
        TCall(<<"setup">>, <<>>, 0), TCall(<<"setup">>, <<>>, 1)}

DeclSeqs == {<<>>} \cup {<<d>> : d \in SetupDecls} \cup {<<d, e>> : d, e \in SetupDecls}

DefaultImports ==
  <<Import(TestingLibraryReact, <<"render", "fireEvent">>), Import("./test-utils", <<"setup">>)>>

TestForms == {"it", "test", "it.each()", "it.each-template", "it.skip"}

\* one test block holding a setup declaration and one fireEvent call
SingleFiles ==
  {File(DefaultImports, <<TestBlock(form, FALSE, <<d, c>>)>>) :
     form \in TestForms, c \in AllEventCalls,
     d \in {TDecl("ObjectPattern", <<"getByText">>, <<"setup">>, <<>>, 0),
            TDecl("Identifier", <<"view">>, <<"render">>, <<>>, 0)}}

\* one `it` block: setup declarations, then a call; the callback itself may not
\* be a block-bodied function
BodyFiles ==
  {File(DefaultImports, <<TestBlock("it", a, d \o <<c>>)>>) :
     a \in BOOLEAN, d \in DeclSeqs, c \in SomeEventCalls \cup UserCalls}
  \cup {File(DefaultImports,
             <<Unit("TestCall", "it", fn, 0, FALSE, <<>>, bt, <<c>>)>>) :
          fn \in {"FunctionExpression", "ArrowFunctionExpression"},
          bt \in {"BlockStatement", "Expression"}, c \in SomeEventCalls}
  \cup {File(DefaultImports,
             <<Unit("TestCall", "it", "Identifier", 0, FALSE, <<>>, "BlockStatement", <<>>)>>)}
  \cup {File(DefaultImports,
             <<TestBlock("it", FALSE, <<TDecl("Identifier", <<"view">>, <<"render">>, <<>>, 0), c,
                                        TCall(<<"fireEvent", "scroll">>, <<el>>, 0)>>)>>) :
          c \in UserCalls}

\* a call in a callback nested in the test body, or in a hook
NestedFiles ==
  {File(DefaultImports,
        <<TestBlock(form, FALSE, <<d>>), Callback("waitFor", 1, a, <<c>>)>>) :
     form \in {"it", "it.each()"}, a \in BOOLEAN, c \in SomeEventCalls,
     d \in {TDecl("ObjectPattern", <<"getByText">>, <<"setup">>, <<>>, 0)}}
  \cup {File(DefaultImports,
        <<Callback("beforeEach", 0, a, <<c>>), TestBlock("it", FALSE, <<d, e>>)>>) :
     a \in BOOLEAN, c \in SomeEventCalls, e \in SomeEventCalls,
     d \in {TDecl("ObjectPattern", <<"getByText">>, <<"setup">>, <<>>, 0)}}


\* helper functions: declared or assigned, block or expression bodied, with or
\* without a user parameter, and the calls to them
userParam == [name |-> "user", type |-> "ExtendedUserEvent"]
setupDecl == TDecl("ObjectPattern", <<"getByText">>, <<"setup">>, <<>>, 0)
clickCall == TCall(<<"fireEvent", "click">>, <<el>>, 0)

HelperShapes ==
  {<<"FunctionDeclaration", "FunctionDeclaration", "BlockStatement">>,
   <<"VariableDeclarator", "ArrowFunctionExpression", "BlockStatement">>,
   <<"VariableDeclarator", "FunctionExpression", "BlockStatement">>,
   <<"VariableDeclarator", "ArrowFunctionExpression", "Expression">>}

HelperBodies(bodyType) ==
  IF bodyType = "Expression" THEN {<<c>> : c \in SomeEventCalls}
  ELSE {<<c>> : c \in SomeEventCalls}
       \cup {<<TDecl("Identifier", <<"view">>, <<"render">>, <<>>, 0), clickCall>>,
             <<TCall(<<"fireEvent", "scroll">>, <<el>>, 0), clickCall>>,
             <<TCall(<<"fireEvent", "keyDown">>, <<el>>, 0)>>,
             <<TCall(<<"fireEvent", "click">>, <<el, Ident("opts")>>, 0)>>,
             <<TCall(<<"log">>, <<>>, 0)>>}

HelperParams == {Params(x) : x \in ExtraArgs} \cup {Params(x) \o <<userParam>> : x \in ExtraArgs}

Helpers(name, parent) ==
  {Unit(sh[1], name, sh[2], parent, a, ps, sh[3], b) :
     sh \in {x \in HelperShapes : x[3] = "BlockStatement"}, a \in BOOLEAN,
     ps \in HelperParams, b \in HelperBodies("BlockStatement")}
  \cup {Unit(sh[1], name, sh[2], parent, a, ps, sh[3], b) :
     sh \in {x \in HelperShapes : x[3] = "Expression"}, a \in BOOLEAN,
     ps \in HelperParams, b \in HelperBodies("Expression")}

PlainHelpers(name, parent) ==
  {u \in Helpers(name, parent) : ~u.async /\ u.params = <<>>}

\* the calls of a helper `name` declared with the parameters `ps`
CallSites(name, ps) ==
  LET own == IdentArgs([k \in 1..Len(ps) |-> ps[k].name])
      given == SelectSeq(own, LAMBDA x : x.name # "user")
  IN {TCall(<<name>>, given, w) : w \in {0, 1}}
     \cup {TCall(<<name>>, own, 0), TDecl("Identifier", <<"result">>, <<name>>, given, 0)}

HelperFiles ==
  UNION {{File(DefaultImports, <<h, TestBlock("it", FALSE, <<setupDecl, cs>> \o more)>>) :
            cs \in CallSites(h.name, h.params),
            more \in {<<>>, <<clickCall>>, <<TCall(<<"fireEvent", "scroll">>, <<el>>, 0)>>}} :
         h \in Helpers("doThing", 0)}
  \cup {File(DefaultImports, <<h, Callback("beforeEach", 0, FALSE, <<TCall(<<h.name>>, <<>>, 0)>>),
                               TestBlock("it", FALSE, <<setupDecl, TCall(<<h.name>>, <<>>, 0)>>)>>) :
     h \in PlainHelpers("doThing", 0) \cup PlainHelpers("renderForm", 0)}
  \cup {File(DefaultImports, <<TestBlock("it", FALSE, <<setupDecl, cs>>), h>>) :
     h \in PlainHelpers("doThing", 1), cs \in CallSites("doThing", <<>>)}
  \cup {File(DefaultImports,
             <<Unit(sh[1], "outer", sh[2], 0, FALSE, <<>>, "BlockStatement",
                    <<TCall(<<"doThing">>, <<>>, 0)>>),
               h, TestBlock("it", FALSE, <<setupDecl, TCall(<<"outer">>, <<>>, 0)>>)>>) :
     sh \in {x \in HelperShapes : x[3] = "BlockStatement"}, h \in PlainHelpers("doThing", 1)}
  \* a function that had its `user` parameter before the pass, called with a
  \* handle of another name, next to a helper the pass has to modify
  \cup {File(DefaultImports,
             <<Unit("FunctionDeclaration", "typeIn", "FunctionDeclaration", 0, a, <<userParam>>,
                    "BlockStatement", <<TCall(<<"user", "click">>, <<el>>, IF a THEN 1 ELSE 0)>>),
               h,
               TestBlock("it", a, <<setupDecl, TCall(<<"typeIn">>, <<Ident("u")>>, w)>> \o more)>>) :
     a \in BOOLEAN, w \in {0, 1}, h \in PlainHelpers("doThing", 0),
     more \in {<<>>, <<TCall(<<"doThing">>, <<>>, 0)>>}}

\* import declarations
ReactImports ==
  {Import(TestingLibraryReact, sp) :
     sp \in {<<"fireEvent">>, <<"render", "fireEvent">>, <<"fireEvent", "render">>,
             <<"render", "fireEvent", "screen">>, <<"render">>}}
OtherImports ==
  {<<>>, <<Import("./utils", <<"fireEvent">>)>>,
   <<Import(TestingLibraryUserEvent, <<"userEvent">>)>>,
   <<Import(TestingLibraryUserEvent, <<"ExtendedUserEvent">>)>>,
   <<Import(TestingLibraryUserEvent, <<"userEvent">>),
     Import(TestingLibraryUserEvent, <<"ExtendedUserEvent">>)>>,
   <<Import(TestingLibraryReact, <<"fireEvent", "waitFor">>)>>}
ImportLists ==
  {<<>>} \cup {<<r>> \o o : r \in ReactImports, o \in OtherImports}
         \cup {o \o <<r>> : r \in ReactImports, o \in OtherImports}

ImportFiles ==
  {File(imps, us) :
     imps \in ImportLists,
     us \in {<<TestBlock("it", FALSE, <<setupDecl, c>>)>> : c \in SomeEventCalls}
        \cup {<<Callback("beforeEach", 0, FALSE, <<clickCall>>),
                TestBlock("it", FALSE, <<setupDecl, clickCall>>)>>,
              <<TestBlock("test", FALSE, <<setupDecl, clickCall>>)>>,
              <<TestBlock("it", FALSE, <<setupDecl, TCall(<<"log">>, <<Ident("fireEvent")>>, 0)>>)>>}
        \cup {<<h, TestBlock("it", FALSE, <<setupDecl, TCall(<<"doThing">>, <<>>, 0)>>)>> :
                h \in PlainHelpers("doThing", 0)}}

InputFiles == SingleFiles \cup BodyFiles \cup NestedFiles \cup HelperFiles \cup ImportFiles

(***************************************************************************)
(* The state machine.                                                      *)
(***************************************************************************)
Init ==
  /\ src \in InputFiles
  /\ tree = Parse(src)
  /\ pc = "helpers"
  /\ queue = <<>>
  /\ modified = FALSE
  /\ output = NoOutput
  /\ failed = FALSE
  /\ pass = 1
  /\ outputs = <<src>>

\* const hasHelperFunctionsWithFireEvent = handleHelperFunctions(config)
HandleHelperFunctions ==
  /\ pc = "helpers"
  /\ LET r == handleHelperFunctions(tree.units)
     IN /\ tree' = [tree EXCEPT !.units = r.units]
        /\ modified' = r.modifiedAnyFunction
  /\ pc' = "addImport"
  /\ UNCHANGED <<src, queue, output, failed, pass, outputs>>

AddUserEventImport ==
  /\ pc = "addImport"
  /\ tree' = addUserEventImport(modified, tree)
  /\ pc' = "findIt"
  /\ UNCHANGED <<src, queue, modified, output, failed, pass, outputs>>

\* root.find(j.CallExpression).filter(callee is the identifier `it`)
FindItTests ==
  /\ pc = "findIt"
  /\ queue' = Filter(tree.units, IsItCall, 1)
  /\ pc' = "forEachIt"
  /\ UNCHANGED <<src, tree, modified, output, failed, pass, outputs>>

\* root.find(j.CallExpression).filter(callee is a call or tagged template of .each)
FindEachTests ==
  /\ pc = "forEachIt" /\ queue = <<>>
  /\ queue' = Filter(tree.units, IsEachCall, 1)
  /\ pc' = "forEachEach"
  /\ UNCHANGED <<src, tree, modified, output, failed, pass, outputs>>

HandleTestCallback ==
  /\ pc \in {"forEachIt", "forEachEach"} /\ queue # <<>>
  /\ ~handleTestCallbackThrows(tree.units, Head(queue))
  /\ tree' = [tree EXCEPT !.units = handleTestCallback(tree.units, Head(queue))]
  /\ queue' = Tail(queue)
  /\ UNCHANGED <<src, pc, modified, output, failed, pass, outputs>>

\* an exception leaves handleTestCallback; the catch block returns file.source
HandleTestCallbackFails ==
  /\ pc \in {"forEachIt", "forEachEach"} /\ queue # <<>>
  /\ handleTestCallbackThrows(tree.units, Head(queue))
  /\ tree' = [tree EXCEPT !.units = handleTestCallback(tree.units, Head(queue))]
  /\ output' = catchReturn(src, tree')
  /\ outputs' = Append(outputs, output')
  /\ failed' = TRUE
  /\ pc' = "done"
  /\ UNCHANGED <<src, queue, modified, pass>>

\* an import removal that does not wait for the test blocks
RemoveFireEventImportEarly ==
  /\ pc \in {"forEachIt", "forEachEach"}
  /\ tree' = removeFireEventImport(tree)
  /\ pc' = "toSource"
  /\ UNCHANGED <<src, queue, modified, output, failed, pass, outputs>>

RemoveFireEventImport ==
  /\ pc = "forEachEach" /\ queue = <<>>
  /\ tree' = removeFireEventImport(tree)
  /\ pc' = "toSource"
  /\ UNCHANGED <<src, queue, modified, output, failed, pass, outputs>>

ToSource ==
  /\ pc = "toSource"
  /\ output' = toSource(tree)
  /\ outputs' = Append(outputs, output')
  /\ pc' = "done"
  /\ UNCHANGED <<src, tree, queue, modified, failed, pass>>

\* the transformer applied to the text it returned
Rerun ==
  /\ pc = "done" /\ pass < MaxPasses
  /\ src' = output
  /\ tree' = Parse(output)
  /\ pc' = "helpers"
  /\ queue' = <<>>
  /\ modified' = FALSE
  /\ output' = NoOutput
  /\ failed' = FALSE
  /\ pass' = pass + 1
  /\ UNCHANGED outputs

Next ==
  \/ HandleHelperFunctions
  \/ AddUserEventImport
  \/ FindItTests
  \/ FindEachTests
  \/ HandleTestCallback
  \/ HandleTestCallbackFails
  \/ RemoveFireEventImport
  \/ ToSource
  \/ Rerun

Spec == Init /\ [][Next]_vars


(***************************************************************************)
(* Properties.                                                             *)
(***************************************************************************)

\* C1: idempotence.  The transformer applied to its own output returns that
\* output: every pass after the first returns the text the first returned
\* (no second user property, parameter or argument, no second await, no
\* second ExtendedUserEvent specifier).
C1_Idempotent ==
  pc = "done" /\ pass >= 2 => output = outputs[2] /\ outputs[Len(outputs)] = outputs[2]

\* the second pass has run on a file whose first pass gave a helper its user
\* parameter, a call its user argument and await, and the import its specifier
C1_Witness ==
  /\ pc = "done" /\ pass = 2 /\ ~failed
  /\ outputs[2] # outputs[1]
  /\ \E i \in 1..Len(output.units) :
        /\ output.units[i].kind = "FunctionDeclaration"
        /\ \E k \in 1..Len(output.units[i].params) : output.units[i].params[k].name = "user"
        /\ ~\E k \in 1..Len(outputs[1].units[i].params) : outputs[1].units[i].params[k].name = "user"
  /\ \E k \in 1..Len(output.imports) : HasSpecifier(output.imports[k], "ExtendedUserEvent")

\* C7: the failure contract.  A pass that threw returns the original text, and
\* a pass that did not returns the print of the fully edited tree.
C7_FailureReturnsOriginal ==
  pc = "done" => IF failed THEN output = src ELSE output = toSource(tree)

\* a pass threw after it had edited the tree in place
C7_Witness ==
  pc = "done" /\ failed /\ toSource(tree) # src /\ output = src

\* C8: mapping correctness.  In a test body the pass handles, a one-argument
\* call of a fireEvent method with a direct target becomes the awaited call of
\* the documented user method on the same argument (reached through view when
\* the file declares a view).
C8_MappingCorrect ==
  LET documented(m) ==
        CASE m \in {"click", "focus", "mouseDown"} -> "click"
          [] m \in {"mouseOver", "mouseEnter", "mouseMove", "focusIn"} -> "hover"
          [] m \in {"mouseOut", "mouseLeave", "focusOut"} -> "unhover"
          [] m = "blur" -> "blur"
          [] m = "doubleClick" -> "dblClick"
      direct == {"click", "focus", "mouseDown", "mouseOver", "mouseEnter", "mouseMove",
                 "focusIn", "mouseOut", "mouseLeave", "focusOut", "blur", "doubleClick"}
      handled(i) == \E j \in 1..Len(src.units) :
                      /\ src.units[j].kind = "TestCall"
                      /\ src.units[j].name \in {"it", "it.each()", "it.each-template"}
                      /\ src.units[j].fn \in {"FunctionExpression", "ArrowFunctionExpression"}
                      /\ src.units[j].bodyType = "BlockStatement"
                      /\ IsWithin(src.units, i, j)
      viewDeclared == \E i \in 1..Len(src.units) : \E k \in 1..Len(src.units[i].body) :
                        src.units[i].body[k].kind = "decl" /\ src.units[i].body[k].props = <<"view">>
  IN pc = "done" /\ ~failed =>
       \A i \in 1..Len(src.units) : \A k \in 1..Len(src.units[i].body) :
          LET s == src.units[i].body[k]
              t == output.units[i].body[k]
          IN handled(i) /\ s.kind = "call" /\ Len(s.callee) = 2 /\ s.callee[1] = "fireEvent"
               /\ s.callee[2] \in direct /\ Len(s.args) = 1
             => /\ t.kind = "call" /\ t.args = s.args /\ t.awaits = s.awaits + 1
                /\ \/ t.callee = <<"user", documented(s.callee[2])>>
                   \/ viewDeclared /\ t.callee = <<"view", "user", documented(s.callee[2])>>

\* fireEvent.mouseOver(el) of a test body came out as await user.hover(el)
C8_Witness ==
  /\ pc = "done" /\ ~failed /\ pass = 1
  /\ \E i \in 1..Len(src.units) : \E k \in 1..Len(src.units[i].body) :
        /\ src.units[i].body[k].callee = <<"fireEvent", "mouseOver">>
        /\ Len(src.units[i].body[k].args) = 1
        /\ output.units[i].body[k].callee = <<"user", "hover">>
        /\ output.units[i].body[k].awaits = 1

\* C9: import hygiene.  After a completed pass over a file that imported
\* fireEvent from @testing-library/react, such an import still lists fireEvent
\* exactly when the identifier fireEvent occurs in the returned text outside
\* the import specifiers.
C9_ImportHygiene ==
  LET imported(f) == \E k \in 1..Len(f.imports) :
                        /\ f.imports[k].source = "@testing-library/react"
                        /\ \E n \in 1..Len(f.imports[k].specifiers) :
                              f.imports[k].specifiers[n] = "fireEvent"
      occurs(f) == \E i \in 1..Len(f.units) : \E k \in 1..Len(f.units[i].body) :
                      \/ \E n \in 1..Len(f.units[i].body[k].callee) :
                            f.units[i].body[k].callee[n] = "fireEvent"
                      \/ \E n \in 1..Len(f.units[i].body[k].args) :
                            f.units[i].body[k].args[n] = Ident("fireEvent")
  IN pc = "done" /\ ~failed /\ imported(src) => (imported(output) <=> occurs(output))

\* the specifier was removed from a file whose calls were all rewritten
C9_Witness ==
  /\ pc = "done" /\ ~failed /\ pass = 1
  /\ \E k \in 1..Len(src.imports) : HasSpecifier(src.imports[k], "fireEvent")
                                      /\ src.imports[k].source = TestingLibraryReact
  /\ \E i \in 1..Len(src.units) : \E k \in 1..Len(src.units[i].body) :
        src.units[i].body[k].callee = <<"fireEvent", "click">>
  /\ ~\E k \in 1..Len(output.imports) :
        output.imports[k].source = TestingLibraryReact /\ HasSpecifier(output.imports[k], "fireEvent")

\* C10: the frame of the import removal.  The removal step keeps the
\* declarations of other modules as they were and in their order; of a
\* @testing-library/react declaration it keeps every specifier other than
\* fireEvent, in order, takes out at most the fireEvent specifier, and drops
\* the declaration only when fireEvent was its only specifier.
C10_RemovalFrame ==
  [][pc = "forEachEach" /\ pc' = "toSource" =>
       LET before == tree.imports
           after == tree'.imports
           others(sp) == SelectSeq(sp, LAMBDA x : x # "fireEvent")
           nth(K, j) == CHOOSE k \in K : Cardinality({h \in K : h < k}) = j - 1
       IN \E K \in SUBSET (1..Len(before)) :
             /\ Cardinality(K) = Len(after)
             /\ \A k \in (1..Len(before)) \ K :
                   /\ before[k].source = "@testing-library/react"
                   /\ before[k].specifiers = <<"fireEvent">>
             /\ \A j \in 1..Len(after) :
                   LET b == before[nth(K, j)]
                       a == after[j]
                   IN /\ a.source = b.source
                      /\ b.source # "@testing-library/react" => a = b
                      /\ others(a.specifiers) = others(b.specifiers)
                      /\ Len(a.specifiers) \in {Len(b.specifiers), Len(b.specifiers) - 1}
                      /\ a.specifiers # <<>> \/ b.specifiers = <<>>]_vars

\* the removal took fireEvent out of a declaration that also lists render,
\* beside a declaration of another module
C10_Witness ==
  /\ pc = "toSource"
  /\ \E k \in 1..Len(Parse(src).imports) :
        /\ Parse(src).imports[k].source = TestingLibraryReact
        /\ HasSpecifier(Parse(src).imports[k], "fireEvent")
        /\ HasSpecifier(Parse(src).imports[k], "render")
  /\ \E k \in 1..Len(tree.imports) :
        /\ tree.imports[k].source = TestingLibraryReact
        /\ HasSpecifier(tree.imports[k], "render")
        /\ ~HasSpecifier(tree.imports[k], "fireEvent")
  /\ \E k \in 1..Len(tree.imports) : tree.imports[k].source # TestingLibraryReact


\* C2: every await the pass inserts stands in an async function.  After a
\* completed pass, a statement that gained an await (around a rewritten
\* user call or around a helper call) belongs to a function marked async,
\* wherever the original call stood: test body, nested callback, helper, hook,
\* and on the fallback path of change/input.
C2_AwaitInsideAsync ==
  pc = "done" /\ ~failed =>
    \A i \in 1..Len(src.units) : \A k \in 1..Len(src.units[i].body) :
       output.units[i].body[k].awaits > src.units[i].body[k].awaits
         => output.units[i].async

\* C3: a test block that destructures a recognized setup call without `user`
\* and in which a fireEvent call was rewritten ends with `user` appended to
\* that pattern (the other properties kept in order) and an async callback.
C3_SetupGainsUser ==
  pc = "done" /\ ~failed =>
    \A i \in 1..Len(src.units) : \A k \in 1..Len(src.units[i].body) :
       LET s == src.units[i].body[k]
           rewritten == \E j \in 1..Len(src.units) : \E n \in 1..Len(src.units[j].body) :
                          /\ IsWithin(src.units, j, i)
                          /\ src.units[j].body[n].callee[1] = "fireEvent"
                          /\ output.units[j].body[n].callee[1] # "fireEvent"
       IN /\ src.units[i].kind = "TestCall"
          /\ s.kind = "decl" /\ s.pat = "ObjectPattern"
          /\ Len(s.callee) = 1 /\ s.callee[1] \in POSSIBLE_SUPPORTED_RENDER_METHODS
          /\ \A n \in 1..Len(s.props) : s.props[n] # "user"
          /\ rewritten
          => /\ output.units[i].body[k].props = Append(s.props, "user")
             /\ output.units[i].async

\* C4: the follow-up edits of a test body run whenever a fireEvent call in it
\* was rewritten or a call in it to a modified helper was updated: the
\* callback of such an `it` block is async, and a setup destructuring in it
\* binds `user`.
C4_FollowUpTrigger ==
  pc = "done" /\ ~failed =>
    \A i \in 1..Len(src.units) :
       LET affected == \E j \in 1..Len(src.units) : \E n \in 1..Len(src.units[j].body) :
                         LET s == src.units[j].body[n]
                             t == output.units[j].body[n]
                         IN /\ IsWithin(src.units, j, i)
                            /\ \/ s.callee[1] = "fireEvent" /\ t.callee[1] # "fireEvent"
                               \/ /\ Len(s.callee) = 1 /\ t.callee = s.callee
                                  /\ \/ t.args = Append(s.args, Ident("user"))
                                     \/ t.awaits > s.awaits
           viewDeclared == \E k \in 1..Len(src.units[i].body) :
                             src.units[i].body[k].kind = "decl" /\ src.units[i].body[k].props = <<"view">>
       IN /\ src.units[i].kind = "TestCall" /\ src.units[i].name = "it"
          /\ src.units[i].fn \in {"FunctionExpression", "ArrowFunctionExpression"}
          /\ src.units[i].bodyType = "BlockStatement"
          /\ affected
          => /\ output.units[i].async
             /\ \A k \in 1..Len(src.units[i].body) :
                   LET s == src.units[i].body[k]
                   IN s.kind = "decl" /\ s.pat = "ObjectPattern" /\ Len(s.callee) = 1
                        /\ s.callee[1] \in POSSIBLE_SUPPORTED_RENDER_METHODS /\ ~viewDeclared
                      => \E n \in 1..Len(output.units[i].body[k].props) :
                            output.units[i].body[k].props[n] = "user"

\* C5: helper propagation.  A block-bodied helper that is not a setup function,
\* has no `user` parameter and holds a mapped one-argument fireEvent call ends
\* the pass with the trailing parameter user: ExtendedUserEvent, async, that
\* call rewritten to the awaited user action, and every call to it by name
\* awaited and passed `user` after its original arguments.
C5_HelperPropagation ==
  pc = "done" /\ ~failed =>
    \A i \in 1..Len(src.units) :
       LET h == src.units[i]
           mappedCall(s) == /\ Len(s.callee) = 2 /\ s.callee[1] = "fireEvent"
                            /\ s.callee[2] \in DOMAIN FIRE_EVENT_TO_USER_EVENT_MAP
                            /\ Len(s.args) = 1
       IN /\ h.kind \in {"FunctionDeclaration", "VariableDeclarator"}
          /\ h.bodyType = "BlockStatement"
          /\ h.name \notin POSSIBLE_SUPPORTED_RENDER_METHODS
          /\ \A k \in 1..Len(h.params) : h.params[k].name # "user"
          /\ \E k \in 1..Len(h.body) : mappedCall(h.body[k])
          => /\ output.units[i].params =
                  Append(h.params, [name |-> "user", type |-> "ExtendedUserEvent"])
             /\ output.units[i].async
             /\ \A k \in 1..Len(h.body) :
                   mappedCall(h.body[k]) =>
                     LET t == output.units[i].body[k]
                         action == FIRE_EVENT_TO_USER_EVENT_MAP[h.body[k].callee[2]]
                     IN /\ t.awaits = h.body[k].awaits + 1 /\ t.args = h.body[k].args
                        /\ t.callee \in {<<"user", action>>, <<"view", "user", action>>}
             /\ \A j \in 1..Len(src.units) : \A n \in 1..Len(src.units[j].body) :
                   LET s == src.units[j].body[n]
                       t == output.units[j].body[n]
                   IN s.callee = <<h.name>>
                      => t.callee = s.callee /\ t.args = Append(s.args, Ident("user"))
                           /\ t.awaits >= 1

\* C6: helper coverage.  After the helper scan, every function declaration or
\* function-valued variable that is not a setup function and whose body held a
\* fireEvent call has a `user` parameter and no one-argument call of a mapped
\* fireEvent method left in it, also when it had a `user` parameter before the
\* pass and when it is an arrow function with an expression body.
C6_HelperCoverage ==
  pc = "addImport" =>
    \A i \in 1..Len(src.units) :
       LET h == src.units[i]
           holdsFireEvent == \E j \in 1..Len(src.units) : \E n \in 1..Len(src.units[j].body) :
                               IsWithin(src.units, j, i) /\ src.units[j].body[n].callee[1] = "fireEvent"
       IN /\ h.kind \in {"FunctionDeclaration", "VariableDeclarator"}
          /\ h.name \notin POSSIBLE_SUPPORTED_RENDER_METHODS
          /\ holdsFireEvent
          => /\ \E k \in 1..Len(tree.units[i].params) : tree.units[i].params[k].name = "user"
             /\ \A j \in 1..Len(tree.units) : \A n \in 1..Len(tree.units[j].body) :
                   LET t == tree.units[j].body[n]
                   IN IsWithin(tree.units, j, i) =>
                        ~(/\ t.object = <<"fireEvent">> /\ Len(t.property) = 1
                          /\ t.property[1] \in DOMAIN FIRE_EVENT_TO_USER_EVENT_MAP
                          /\ Len(t.args) = 1)


\* C11: set-value with the empty string.  In a test body the pass handles, a
\* two-argument change/input call whose target.value is the empty-string
\* literal becomes the awaited user.clear on the element alone (reached through
\* view when the file declares a view).
C11_EmptyValueClears ==
  LET handled(i) == \E j \in 1..Len(src.units) :
                      /\ src.units[j].kind = "TestCall"
                      /\ src.units[j].name \in {"it", "it.each()", "it.each-template"}
                      /\ src.units[j].fn \in {"FunctionExpression", "ArrowFunctionExpression"}
                      /\ src.units[j].bodyType = "BlockStatement"
                      /\ IsWithin(src.units, i, j)
      viewDeclared == \E i \in 1..Len(src.units) : \E k \in 1..Len(src.units[i].body) :
                        src.units[i].body[k].kind = "decl" /\ src.units[i].body[k].props = <<"view">>
  IN pc = "done" /\ ~failed =>
       \A i \in 1..Len(src.units) : \A k \in 1..Len(src.units[i].body) :
          LET s == src.units[i].body[k]
              t == output.units[i].body[k]
          IN handled(i) /\ s.kind = "call" /\ Len(s.callee) = 2 /\ s.callee[1] = "fireEvent"
               /\ s.callee[2] \in {"change", "input"} /\ Len(s.args) = 2
               /\ s.args[2].type = "ObjectExpression" /\ s.args[2].shape = "target.value"
               /\ s.args[2].vtype = "StringLiteral" /\ s.args[2].val = ""
             => /\ t.kind = "call" /\ t.awaits = s.awaits + 1
                /\ t.args = <<s.args[1]>>
                /\ \/ t.callee = <<"user", "clear">>
                   \/ viewDeclared /\ t.callee = <<"view", "user", "clear">>

\* fireEvent.input(el, {target: {value: ''}}) came out as await user.clear(el)
C11_Witness ==
  /\ pc = "done" /\ ~failed /\ pass = 1
  /\ \E i \in 1..Len(src.units) : \E k \in 1..Len(src.units[i].body) :
        /\ src.units[i].body[k].callee = <<"fireEvent", "input">>
        /\ Len(src.units[i].body[k].args) = 2
        /\ src.units[i].body[k].args[2].shape = "target.value"
        /\ src.units[i].body[k].args[2].vtype = "StringLiteral"
        /\ src.units[i].body[k].args[2].val = ""
        /\ output.units[i].body[k].callee = <<"user", "clear">>
        /\ output.units[i].body[k].args = <<Ident("el")>>

\* C12: numeric coercion of a set-value.  In a test body the pass handles, a
\* two-argument change/input call becomes the awaited user.advancedType on the
\* element and: a string literal holding the value's text when target.value is
\* a numeric literal or a string literal that reads as a number; the value
\* node itself when it is another non-empty string literal or an identifier.
C12_NumericCoercion ==
  LET handled(i) == \E j \in 1..Len(src.units) :
                      /\ src.units[j].kind = "TestCall"
                      /\ src.units[j].name \in {"it", "it.each()", "it.each-template"}
                      /\ src.units[j].fn \in {"FunctionExpression", "ArrowFunctionExpression"}
                      /\ src.units[j].bodyType = "BlockStatement"
                      /\ IsWithin(src.units, i, j)
      viewDeclared == \E i \in 1..Len(src.units) : \E k \in 1..Len(src.units[i].body) :
                        src.units[i].body[k].kind = "decl" /\ src.units[i].body[k].props = <<"view">>
      readsAsNumber(v) == v \in {"0", "2", "42", "3.5"}
      stringLiteral(v) == [type |-> "StringLiteral", name |-> "", val |-> v, shape |-> "", vtype |-> ""]
      identifier(n) == [type |-> "Identifier", name |-> n, val |-> "", shape |-> "", vtype |-> ""]
      expected(o) ==
        CASE o.vtype = "NumericLiteral" -> stringLiteral(o.val)
          [] o.vtype = "StringLiteral" -> stringLiteral(o.val)
          [] o.vtype = "Identifier" -> identifier(o.name)
  IN pc = "done" /\ ~failed =>
       \A i \in 1..Len(src.units) : \A k \in 1..Len(src.units[i].body) :
          LET s == src.units[i].body[k]
              t == output.units[i].body[k]
          IN handled(i) /\ s.kind = "call" /\ Len(s.callee) = 2 /\ s.callee[1] = "fireEvent"
               /\ s.callee[2] \in {"change", "input"} /\ Len(s.args) = 2
               /\ s.args[2].type = "ObjectExpression" /\ s.args[2].shape = "target.value"
               /\ \/ s.args[2].vtype = "NumericLiteral" /\ readsAsNumber(s.args[2].val)
                  \/ s.args[2].vtype = "StringLiteral" /\ s.args[2].val # ""
                  \/ s.args[2].vtype = "Identifier"
             => /\ t.kind = "call" /\ t.awaits = s.awaits + 1
                /\ t.args = <<s.args[1], expected(s.args[2])>>
                /\ \/ t.callee = <<"user", "advancedType">>
                   \/ viewDeclared /\ t.callee = <<"view", "user", "advancedType">>

\* the numeric literal 42 came out as the string literal '42'
C12_Witness ==
  /\ pc = "done" /\ ~failed /\ pass = 1
  /\ \E i \in 1..Len(src.units) : \E k \in 1..Len(src.units[i].body) :
        /\ src.units[i].body[k].callee = <<"fireEvent", "change">>
        /\ Len(src.units[i].body[k].args) = 2
        /\ src.units[i].body[k].args[2].shape = "target.value"
        /\ src.units[i].body[k].args[2].vtype = "NumericLiteral"
        /\ src.units[i].body[k].args[2].val = "42"
        /\ output.units[i].body[k].callee = <<"user", "advancedType">>
        /\ output.units[i].body[k].args = <<Ident("el"), StrLit("42")>>


\* C13: set-value fallback.  In a test body the pass handles, a two-argument
\* change/input call whose second argument is not a {target: {value}} literal
\* with an extractable value becomes the awaited user.advancedType on both
\* original arguments, and counts as a rewrite of its body: the test callback
\* ends the pass async.
C13_FallbackCountsAsRewrite ==
  LET handledBy(i, j) == /\ src.units[j].kind = "TestCall"
                         /\ src.units[j].name \in {"it", "it.each()", "it.each-template"}
                         /\ src.units[j].fn \in {"FunctionExpression", "ArrowFunctionExpression"}
                         /\ src.units[j].bodyType = "BlockStatement"
                         /\ IsWithin(src.units, i, j)
      viewDeclared == \E i \in 1..Len(src.units) : \E k \in 1..Len(src.units[i].body) :
                        src.units[i].body[k].kind = "decl" /\ src.units[i].body[k].props = <<"view">>
      extractable(o) == /\ o.type = "ObjectExpression" /\ o.shape = "target.value"
                        /\ o.vtype \in {"StringLiteral", "NumericLiteral", "Literal", "Identifier"}
  IN pc = "done" /\ ~failed /\ pass = 1 =>
       \A i \in 1..Len(src.units) : \A j \in 1..Len(src.units) : \A k \in 1..Len(src.units[i].body) :
          LET s == src.units[i].body[k]
              t == output.units[i].body[k]
          IN handledBy(i, j) /\ s.kind = "call" /\ Len(s.callee) = 2 /\ s.callee[1] = "fireEvent"
               /\ s.callee[2] \in {"change", "input"} /\ Len(s.args) = 2
               /\ ~extractable(s.args[2])
             => /\ t.kind = "call" /\ t.awaits = s.awaits + 1
                /\ t.args = s.args
                /\ \/ t.callee = <<"user", "advancedType">>
                   \/ viewDeclared /\ t.callee = <<"view", "user", "advancedType">>
                /\ output.units[j].async


\* C14: argument-count filter.  In a test body the pass handles, a fireEvent
\* call on a mapped method whose argument count is not the one its policy asks
\* for (two for change/input/keyDown/keyUp, one for every other method) is the
\* same statement after the pass.
C14_ArgumentCountFilter ==
  LET handled(i) == \E j \in 1..Len(src.units) :
                      /\ src.units[j].kind = "TestCall"
                      /\ src.units[j].name \in {"it", "it.each()", "it.each-template"}
                      /\ src.units[j].fn \in {"FunctionExpression", "ArrowFunctionExpression"}
                      /\ src.units[j].bodyType = "BlockStatement"
                      /\ IsWithin(src.units, i, j)
      policyCount(m) == IF m \in {"change", "input", "keyDown", "keyUp"} THEN 2 ELSE 1
  IN pc = "done" /\ ~failed /\ pass = 1 =>
       \A i \in 1..Len(src.units) : \A k \in 1..Len(src.units[i].body) :
          LET s == src.units[i].body[k]
          IN handled(i) /\ s.kind = "call" /\ Len(s.callee) = 2 /\ s.callee[1] = "fireEvent"
               /\ s.callee[2] \in DOMAIN FIRE_EVENT_TO_USER_EVENT_MAP
               /\ Len(s.args) # policyCount(s.callee[2])
             => output.units[i].body[k] = s


\* C15: keyboard policy.  In a test body the pass handles, a two-argument
\* keyDown/keyUp call on an object literal becomes the awaited user.keyboard
\* with one string literal and without the element; when the object gives a
\* string to `key`, or to `code` and has no `key`, the string is that value
\* (key before code), in braces exactly when it is a special key.
C15_KeyboardPolicy ==
  LET handled(i) == \E j \in 1..Len(src.units) :
                      /\ src.units[j].kind = "TestCall"
                      /\ src.units[j].name \in {"it", "it.each()", "it.each-template"}
                      /\ src.units[j].fn \in {"FunctionExpression", "ArrowFunctionExpression"}
                      /\ src.units[j].bodyType = "BlockStatement"
                      /\ IsWithin(src.units, i, j)
      viewDeclared == \E i \in 1..Len(src.units) : \E k \in 1..Len(src.units[i].body) :
                        src.units[i].body[k].kind = "decl" /\ src.units[i].body[k].props = <<"view">>
      named == {"Enter", "Tab", "Escape", "Backspace", "Delete",
                "ArrowUp", "ArrowDown", "ArrowLeft", "ArrowRight"}
      braced(v) == IF v \in named THEN "{" \o v \o "}" ELSE v
  IN pc = "done" /\ ~failed /\ pass = 1 =>
       \A i \in 1..Len(src.units) : \A k \in 1..Len(src.units[i].body) :
          LET s == src.units[i].body[k]
              t == output.units[i].body[k]
          IN handled(i) /\ s.kind = "call" /\ Len(s.callee) = 2 /\ s.callee[1] = "fireEvent"
               /\ s.callee[2] \in {"keyDown", "keyUp"} /\ Len(s.args) = 2
               /\ s.args[2].type = "ObjectExpression"
             => /\ t.kind = "call" /\ t.awaits = s.awaits + 1
                /\ \/ t.callee = <<"user", "keyboard">>
                   \/ viewDeclared /\ t.callee = <<"view", "user", "keyboard">>
                /\ Len(t.args) = 1 /\ t.args[1].type = "StringLiteral"
                /\ s.args[2].shape \in {"key", "key+code", "code"} /\ s.args[2].vtype = "StringLiteral"
                     => t.args[1].val = braced(s.args[2].val)

\* {key: 'Tab', code: 'KeyA'} gave user.keyboard('{Tab}')
C15_Witness ==
  /\ pc = "done" /\ ~failed /\ pass = 1
  /\ \E i \in 1..Len(src.units) : \E k \in 1..Len(src.units[i].body) :
        /\ src.units[i].body[k].callee \in {<<"fireEvent", "keyDown">>, <<"fireEvent", "keyUp">>}
        /\ Len(src.units[i].body[k].args) = 2
        /\ output.units[i].body[k].callee = <<"user", "keyboard">>
        /\ src.units[i].body[k].args[2] = KeyCodeLit("Tab", "KeyA")
        /\ output.units[i].body[k].args = <<StrLit("{Tab}")>>


C17_SingleUserBinding ==
  LET bindsUser(s) == /\ s.kind = "decl" /\ s.pat = "ObjectPattern"
                      /\ \E k \in 1..Len(s.props) : s.props[k] = "user"
                      /\ Len(s.callee) = 1 /\ s.callee[1] \in POSSIBLE_SUPPORTED_RENDER_METHODS
      bindings(f, j) == {p \in Positions(f.units, SubtreeOf(f.units, j)) :
                           bindsUser(f.units[p[1]].body[p[2]])}
  IN pc = "done" /\ ~failed =>
       \A j \in 1..Len(src.units) :
          src.units[j].kind = "TestCall" /\ bindings(src, j) = {}
            => Cardinality(bindings(output, j)) <= 1


\* C18: setup await preservation.  Where the pass adds the `user` binding to a
\* setup/render call, the call is awaited after the edit exactly when it was
\* awaited before it, and its callee and arguments are the ones it had.
C18_SetupAwaitPreserved ==
  LET hasUser(s) == s.kind = "decl" /\ \E k \in 1..Len(s.props) : s.props[k] = "user"
      isSetup(s) == Len(s.callee) = 1 /\ s.callee[1] \in POSSIBLE_SUPPORTED_RENDER_METHODS
  IN pc = "done" /\ ~failed =>
       \A i \in 1..Len(src.units) : \A k \in 1..Len(src.units[i].body) :
          LET s == src.units[i].body[k]
              t == output.units[i].body[k]
          IN isSetup(s) /\ ~hasUser(s) /\ hasUser(t)
             => /\ (t.awaits > 0) <=> (s.awaits > 0)
                /\ t.callee = s.callee
                /\ t.args = s.args

\* const { getByText } = await setup(props) gained user and kept its await
C18_Witness ==
  /\ pc = "done" /\ ~failed /\ pass = 1
  /\ \E i \in 1..Len(src.units) : \E k \in 1..Len(src.units[i].body) :
        /\ src.units[i].body[k] = TDecl("ObjectPattern", <<"getByText">>, <<"setup">>, <<Ident("props")>>, 1)
        /\ output.units[i].body[k] =
             TDecl("ObjectPattern", <<"getByText", "user">>, <<"setup">>, <<Ident("props")>>, 1)


\* C19: view qualification.  In a test body that declares `view` as the direct
\* result of a setup/render call, every call the pass rewrote from fireEvent is
\* awaited and reads view.user.<action> (one `view`, then `user`, then the
\* action), and no setup call of the body gains a `user` binding.
C19_ViewQualification ==
  LET declaresView(s) == /\ s.kind = "decl" /\ s.pat = "Identifier" /\ s.props = <<"view">>
                         /\ s.awaits = 0 /\ Len(s.callee) = 1
                         /\ s.callee[1] \in POSSIBLE_SUPPORTED_RENDER_METHODS
      hasUser(s) == s.kind = "decl" /\ \E k \in 1..Len(s.props) : s.props[k] = "user"
      isFireEvent(s) == Len(s.callee) = 2 /\ s.callee[1] = "fireEvent"
  IN pc = "done" /\ ~failed =>
       \A j \in 1..Len(src.units) :
          /\ src.units[j].kind = "TestCall"
          /\ \E p \in Positions(src.units, SubtreeOf(src.units, j)) :
                declaresView(src.units[p[1]].body[p[2]])
          => \A p \in Positions(src.units, SubtreeOf(src.units, j)) :
                LET s == src.units[p[1]].body[p[2]]
                    t == output.units[p[1]].body[p[2]]
                IN /\ isFireEvent(s) /\ t # s
                      => /\ t.kind = "call" /\ t.awaits = s.awaits + 1
                         /\ Len(t.callee) = 3 /\ t.callee[1] = "view" /\ t.callee[2] = "user"
                         /\ t.callee[3] \in {FIRE_EVENT_TO_USER_EVENT_MAP[m] :
                                               m \in DOMAIN FIRE_EVENT_TO_USER_EVENT_MAP}
                                             \cup {"clear", "keyboard"}
                   /\ ~hasUser(s) => ~hasUser(t)

\* const view = render(); fireEvent.click(el) came out as await view.user.click(el),
\* the declaration as it was
C19_Witness ==
  /\ pc = "done" /\ ~failed /\ pass = 1
  /\ Len(src.units) = 1 /\ Len(src.units[1].body) = 2
  /\ src.units[1].body[1] = TDecl("Identifier", <<"view">>, <<"render">>, <<>>, 0)
  /\ src.units[1].body[2] = TCall(<<"fireEvent", "click">>, <<el>>, 0)
  /\ output.units[1].body[1] = src.units[1].body[1]
  /\ output.units[1].body[2] = TCall(<<"view", "user", "click">>, <<el>>, 1)
  /\ output.units[1].async


\* C20: support-type import.  For a file that lists ExtendedUserEvent from
\* '@testing-library/user-event' at most once, a pass that returns its tree
\* leaves exactly one such specifier when the helper scan modified a helper,
\* and as many as it found otherwise; the declarations from that module are
\* the ones the file had, the first of them with the specifier appended when
\* it had to be added, and a new declaration appears only when there was none.
C20_SupportTypeImport ==
  LET fromUserEvent(f) == SelectSeq(f.imports, LAMBDA d : d.source = TestingLibraryUserEvent)
      listed(d) == Cardinality({k \in 1..Len(d.specifiers) : d.specifiers[k] = "ExtendedUserEvent"})
      RECURSIVE total(_, _)
      total(ds, k) == IF k > Len(ds) THEN 0 ELSE listed(ds[k]) + total(ds, k + 1)
      before == fromUserEvent(src)
      after == fromUserEvent(output)
  IN pc = "done" /\ ~failed /\ total(before, 1) <= 1 =>
       /\ modified => total(after, 1) = 1
       /\ ~modified => after = before
       /\ modified /\ total(before, 1) = 1 => after = before
       /\ modified /\ total(before, 1) = 0 /\ before # <<>>
            => after = [before EXCEPT ![1].specifiers = Append(@, "ExtendedUserEvent")]
       /\ modified /\ before = <<>>
            => after = <<[source |-> TestingLibraryUserEvent, specifiers |-> <<"ExtendedUserEvent">>]>>

\* the scan modified a helper of a file importing userEvent, and the
\* specifier went into that declaration
C20_Witness ==
  /\ pc = "done" /\ ~failed /\ pass = 1 /\ modified
  /\ SelectSeq(src.imports, LAMBDA d : d.source = TestingLibraryUserEvent)
       = <<[source |-> TestingLibraryUserEvent, specifiers |-> <<"userEvent">>]>>
  /\ SelectSeq(output.imports, LAMBDA d : d.source = TestingLibraryUserEvent)
       = <<[source |-> TestingLibraryUserEvent, specifiers |-> <<"userEvent", "ExtendedUserEvent">>]>>


\* C21: test-block coverage.  Whatever the form of the test call (it, test,
\* it.each by chained call or tagged template, it.skip, test.skip), a
\* one-argument fireEvent.click in the block body of its callback has been
\* rewritten to a user call when the pass ends.
C21_TestBlockCoverage ==
  pc = "done" /\ ~failed /\ pass = 1 =>
    \A j \in 1..Len(src.units) : \A k \in 1..Len(src.units[j].body) :
       /\ src.units[j].kind = "TestCall"
       /\ src.units[j].name \in {"it", "test", "it.each()", "it.each-template", "it.skip", "test.skip"}
       /\ src.units[j].fn \in {"FunctionExpression", "ArrowFunctionExpression"}
       /\ src.units[j].bodyType = "BlockStatement"
       /\ src.units[j].body[k].kind = "call"
       /\ src.units[j].body[k].callee = <<"fireEvent", "click">>
       /\ Len(src.units[j].body[k].args) = 1
       => /\ output.units[j].body[k].awaits = src.units[j].body[k].awaits + 1
          /\ output.units[j].body[k].callee \in {<<"user", "click">>, <<"view", "user", "click">>}


(***************************************************************************)
(* transforms/fire-event-to-user-event.ts: the implementation file the     *)
(* README names and the fixture test resolves.  It shares nothing with the *)
(* user_event transformer; its inner functions are modelled here under     *)
(* their names with the prefix `legacy`.                                   *)
(***************************************************************************)
\* the object has a `target` property holding an object with a `value` property
legacyIsTargetValue(obj) == obj.type = "ObjectExpression" /\ obj.shape = "target.value"

\* valueProperty.value: the value node, whatever its type
legacyValueNode(obj) ==
  CASE obj.vtype = "Identifier" -> Ident(obj.name)
    [] obj.vtype = "NumericLiteral" -> NumLit(obj.val)
    [] obj.vtype = "StringLiteral" -> StrLit(obj.val)
    [] OTHER -> [type |-> obj.vtype, name |-> obj.name, val |-> obj.val, shape |-> "", vtype |-> ""]

\* the three `if` of the forEach of replaceFireEventWithUserEvent
legacyReplaceBranch(s) ==
  IF ~(IsFireEventCall(s) /\ PropertyIsIdentifier(s)) THEN "none"
  ELSE LET method == s.property[1] IN
    IF method = "click" /\ Len(s.args) = 1 THEN "click"
    ELSE IF method = "mouseOver" /\ Len(s.args) = 1 THEN "hover"
    ELSE IF method = "change" /\ Len(s.args) = 2 /\ legacyIsTargetValue(s.args[2]) THEN "type"
    ELSE "none"

legacyReplaceStmt(s) ==
  LET b == legacyReplaceBranch(s) IN
  CASE b = "click" -> Call(<<"user">>, <<"click">>, s.args, s.awaits + 1)
    [] b = "hover" -> Call(<<"user">>, <<"hover">>, s.args, s.awaits + 1)
    [] b = "type" -> Call(<<"user">>, <<"type">>, <<s.args[1], legacyValueNode(s.args[2])>>,
                          s.awaits + 1)
    [] OTHER -> s

legacyReplaceFireEventWithUserEvent(units, scope) ==
  [units |-> MapScope(units, scope, legacyReplaceStmt),
   hasReplacement |-> \E p \in Positions(units, scope) :
                         legacyReplaceBranch(units[p[1]].body[p[2]]) # "none"]

legacySetupMethods == {"setUp", "setup"}

legacyIsSetupCall(s) == CalleeIsIdentifier(s) /\ CalleeName(s) \in legacySetupMethods

\* declarator.id.properties.some((prop) => prop.key.name === 'user') reads
\* `name` of the missing key of a rest element
legacySetupThrows(s) ==
  /\ legacyIsSetupCall(s) /\ s.kind = "decl" /\ s.awaits = 0 /\ s.pat = "ObjectPattern"
  /\ SomePropIsUser(s.props, 1) = "throw"

legacySetupStmt(s) ==
  IF ~legacyIsSetupCall(s) THEN s
  ELSE IF s.kind = "decl" /\ s.awaits = 0
    THEN (IF s.pat = "ObjectPattern"
            THEN (IF SomePropIsUser(s.props, 1) = "false"
                    THEN [s EXCEPT !.props = Append(@, "user")] ELSE s)
            ELSE [s EXCEPT !.pat = "ObjectPattern", !.props = <<"user">>])
  ELSE Decl("ObjectPattern", <<"user">>, s.object, s.property, s.args, s.awaits)

legacyGetUserFromSetupThrows(units, scope) ==
  \E p \in Positions(units, scope) : legacySetupThrows(units[p[1]].body[p[2]])

legacyGetUserFromSetup(units, scope) == MapScope(units, scope, legacySetupStmt)

\* the filter of the transformer: `it`; the `jest.it` test compares `computed`
\* with a string and never holds
legacyIsItCall(u) == u.kind = "TestCall" /\ u.name = "it"

\* the body of the forEach over the `it` calls
legacyItBlockThrows(units, i) ==
  LET scope == CallbackScope(units, i)
      rep == legacyReplaceFireEventWithUserEvent(units, scope)
  IN /\ IsFunctionNode(units[i])
     /\ rep.hasReplacement
     /\ legacyGetUserFromSetupThrows(rep.units, scope)

legacyItBlock(units, i) ==
  IF ~IsFunctionNode(units[i]) THEN units
  ELSE
    LET scope == CallbackScope(units, i)
        rep == legacyReplaceFireEventWithUserEvent(units, scope)
    IN IF ~rep.hasReplacement THEN rep.units
       ELSE IF legacyGetUserFromSetupThrows(rep.units, scope) THEN rep.units
       ELSE addAsyncToCallback(legacyGetUserFromSetup(rep.units, scope), i)

\* input files: the shapes of the fixture (one `it` per event, a destructured
\* setup or renderWithRedux call before it), and around them
LegacySetupDecls ==
  {TDecl("ObjectPattern", <<"getByText">>, <<f>>, <<>>, 0) : f \in {"setup", "setUp", "renderWithRedux"}}
  \cup {TDecl("ObjectPattern", <<"getByText", "user">>, <<"setup">>, <<>>, 0),
        TDecl("ObjectPattern", <<"getByText", RestElement>>, <<"setup">>, <<>>, 0),
        TDecl("Identifier", <<"view">>, <<"setup">>, <<>>, 0),
        TCall(<<"setup">>, <<>>, 0)}

LegacyEventCalls ==
  {TCall(<<"fireEvent", m>>, <<el>>, 0) :
      m \in {"click", "mouseOver", "mouseOut", "blur", "focus", "change", "scroll"}}
  \cup {TCall(<<"fireEvent", m>>, <<el, v>>, 0) : m \in {"change", "input"}, v \in TargetValues}
  \cup {TCall(<<"fireEvent", "click">>, <<el, Ident("init")>>, 0)}

LegacyFiles ==
  {File(<<Import(TestingLibraryReact, <<"render", "fireEvent">>),
          Import("./test-utils", <<"setup", "renderWithRedux">>)>>,
        <<TestBlock(form, a, <<d, c>>)>>) :
     form \in {"it", "test"}, a \in BOOLEAN, d \in LegacySetupDecls, c \in LegacyEventCalls}
  \cup {File(<<Import(TestingLibraryReact, <<"render", "fireEvent">>)>>,
             <<Unit("TestCall", "it", fn, 0, FALSE, <<>>, bt, <<c>>)>>) :
          fn \in {"FunctionExpression", "ArrowFunctionExpression", "Identifier"},
          bt \in {"BlockStatement", "Expression"},
          c \in {TCall(<<"fireEvent", "click">>, <<el>>, 0)}}

LegacyInit ==
  /\ src \in LegacyFiles
  /\ tree = Parse(src)
  /\ pc = "legacy.find"
  /\ queue = <<>>
  /\ modified = FALSE
  /\ output = NoOutput
  /\ failed = FALSE
  /\ pass = 1
  /\ outputs = <<src>>

\* root.find(j.CallExpression).filter(...)
LegacyFindItBlocks ==
  /\ pc = "legacy.find"
  /\ queue' = Filter(tree.units, legacyIsItCall, 1)
  /\ pc' = "legacy.forEach"
  /\ UNCHANGED <<src, tree, modified, output, failed, pass, outputs>>

LegacyItBlock ==
  /\ pc = "legacy.forEach" /\ queue # <<>>
  /\ ~legacyItBlockThrows(tree.units, Head(queue))
  /\ tree' = [tree EXCEPT !.units = legacyItBlock(tree.units, Head(queue))]
  /\ queue' = Tail(queue)
  /\ UNCHANGED <<src, pc, modified, output, failed, pass, outputs>>

\* the catch block returns file.source
LegacyItBlockFails ==
  /\ pc = "legacy.forEach" /\ queue # <<>>
  /\ legacyItBlockThrows(tree.units, Head(queue))
  /\ tree' = [tree EXCEPT !.units = legacyItBlock(tree.units, Head(queue))]
  /\ output' = src
  /\ outputs' = Append(outputs, output')
  /\ failed' = TRUE
  /\ pc' = "done"
  /\ UNCHANGED <<src, queue, modified, pass>>

\* `// removeFireEventImport();` is commented out: the imports are printed as parsed
LegacyToSource ==
  /\ pc = "legacy.forEach" /\ queue = <<>>
  /\ output' = toSource(tree)
  /\ outputs' = Append(outputs, output')
  /\ pc' = "done"
  /\ UNCHANGED <<src, tree, queue, modified, failed, pass>>

LegacyNext ==
  \/ LegacyFindItBlocks
  \/ LegacyItBlock
  \/ LegacyItBlockFails
  \/ LegacyToSource

LegacySpec == LegacyInit /\ [][LegacyNext]_vars

\* C22: the fixture contract.  In an `it` body with a destructured setup or
\* renderWithRedux call, a one-argument click / mouseOver / mouseOut / blur /
\* focus call comes out as the awaited user.click / hover / unhover / blur /
\* click on the same argument, a change or input call on {target: {value: v}}
\* as the awaited user.type(el, v), and the '@testing-library/react' import
\* comes out with `render` and without `fireEvent`.
C22_FixtureContract ==
  LET expected == [click |-> "click", mouseOver |-> "hover", mouseOut |-> "unhover",
                   blur |-> "blur", focus |-> "click"]
      destructured(s) == /\ s.kind = "decl" /\ s.pat = "ObjectPattern"
                         /\ s.callee \in {<<"setup">>, <<"renderWithRedux">>}
                         /\ \A k \in 1..Len(s.props) : s.props[k] \notin {"user", RestElement}
  IN pc = "done" /\ ~failed =>
       \A j \in 1..Len(src.units) :
          /\ src.units[j].kind = "TestCall" /\ src.units[j].name = "it"
          /\ src.units[j].bodyType = "BlockStatement"
          /\ Len(src.units[j].body) = 2 /\ destructured(src.units[j].body[1])
          => LET s == src.units[j].body[2]
                 t == output.units[j].body[2]
             IN /\ s.callee[1] = "fireEvent" /\ s.callee[2] \in DOMAIN expected /\ Len(s.args) = 1
                   => t = TCall(<<"user", expected[s.callee[2]]>>, s.args, 1)
                /\ /\ s.callee[1] = "fireEvent" /\ s.callee[2] \in {"change", "input"}
                   /\ Len(s.args) = 2 /\ s.args[2].shape = "target.value"
                   /\ s.args[2].vtype = "StringLiteral"
                   => t = TCall(<<"user", "type">>, <<s.args[1], StrLit(s.args[2].val)>>, 1)
                /\ /\ s.callee[1] = "fireEvent"
                   /\ \/ s.callee[2] \in DOMAIN expected /\ Len(s.args) = 1
                      \/ s.callee[2] \in {"change", "input"} /\ Len(s.args) = 2
                           /\ s.args[2].shape = "target.value"
                   => output.imports[1] = Import(TestingLibraryReact, <<"render">>)


(***************************************************************************)
(* The later phases on one file: add-clear-before-type, then               *)
(* advanced-type-to-type.  Here src is the file with the `lines` option of *)
(* the command, queue the lines to process, tree the root with, per unit,  *)
(* the statements inserted before the statement the unit is the expression *)
(* of (`before`), and outputs the texts of the file on disk, latest last.  *)
(***************************************************************************)
\* parseInt(line, 10) over the characters of `line`: leading blanks skipped,
\* then the longest run of digits; NaN (written -1) when there is none
RECURSIVE parseInt(_, _, _)
parseInt(chars, k, acc) ==
  LET Digits == <<"0", "1", "2", "3", "4", "5", "6", "7", "8", "9">>
  IN IF k <= Len(chars) /\ acc = -1 /\ chars[k] = " " THEN parseInt(chars, k + 1, acc)
     ELSE IF k <= Len(chars) /\ \E d \in 1..10 : Digits[d] = chars[k]
       THEN parseInt(chars, k + 1,
                     (IF acc = -1 THEN 0 ELSE 10 * acc)
                     + (CHOOSE d \in 0..9 : Digits[d + 1] = chars[k]))
     ELSE acc

getLinesToProcess(lines) ==
  IF lines.type = "undefined" \/ (lines.type = "number" /\ lines.value = 0) THEN <<>>
  ELSE IF lines.type = "number" THEN <<lines.value>>
  ELSE SelectSeq([k \in 1..Len(lines.parts) |-> parseInt(lines.parts[k], 1, -1)],
                 LAMBDA line : line # -1)

\* loc.start.line of the k-th statement of unit i: the files of the model are
\* laid out with unit i opening line 10 * i and one statement on each line after it
startLine(i, k) == 10 * i + k

\* advancedTypeCalls.forEach(...): for a call that passes the line test and has
\* an element argument, `await user.clear(elementArg)` and the original
\* expression replace the parent statement.  The walk up the parents stops at
\* the first expression statement: the statement of the call when it is one,
\* else the call statement the enclosing callback is an argument of (0 when
\* the walk reaches the program).
addClearBeforeType(t, lines) ==
  LET IsProcessed(units, ls, i, k) ==
        /\ units[i].body[k].object # <<>> /\ units[i].body[k].property = <<"advancedType">>
        /\ (ls = <<>> \/ \E n \in 1..Len(ls) : ls[n] = startLine(i, k))
        /\ Len(units[i].body[k].args) > 0
      RECURSIVE parentStatement(_, _)
      parentStatement(units, i) ==
        IF units[i].kind \in {"TestCall", "Callback"} THEN i
        ELSE IF units[i].parent = 0 THEN 0
        ELSE parentStatement(units, units[i].parent)
      clearExpression(s) == Call(<<"user">>, <<"clear">>, <<s.args[1]>>, 1)
      RECURSIVE WithClears(_, _)
      WithClears(i, k) ==
        IF k > Len(t.units[i].body) THEN <<>>
        ELSE (IF IsProcessed(t.units, lines, i, k) /\ t.units[i].body[k].kind = "call"
                THEN <<clearExpression(t.units[i].body[k])>> ELSE <<>>)
             \o <<t.units[i].body[k]>> \o WithClears(i, k + 1)
      RECURSIVE ClearsBefore(_, _, _)
      ClearsBefore(u, i, k) ==
        IF i > Len(t.units) THEN <<>>
        ELSE IF k > Len(t.units[i].body) THEN ClearsBefore(u, i + 1, 1)
        ELSE (IF IsProcessed(t.units, lines, i, k) /\ t.units[i].body[k].kind # "call"
                 /\ parentStatement(t.units, i) = u
                THEN <<clearExpression(t.units[i].body[k])>> ELSE <<>>)
             \o ClearsBefore(u, i, k + 1)
  IN [imports |-> t.imports,
      units |-> [i \in 1..Len(t.units) |-> [t.units[i] EXCEPT !.body = WithClears(i, 1)]],
      before |-> [u \in 1..Len(t.units) |-> t.before[u] \o ClearsBefore(u, 1, 1)]]

\* part_005: findAllTestBlocks (it / test), findAllSkippedTestBlocks (`.skip`),
\* findAllItEachTestBlocks (`.each` by chained call or tagged template)
IsAddClearTestBlock(u) ==
  \/ u.kind = "TestCall" /\ u.name \in {"it", "test"}
  \/ u.kind = "TestCall" /\ u.name \in {"it.skip", "test.skip", "describe.skip"}
  \/ IsEachCall(u)

\* getBodyFromCallbackPath reads `type` of arguments[1], which a call without
\* a callback does not have
getBodyThrows(units) ==
  \E i \in 1..Len(units) : IsAddClearTestBlock(units[i]) /\ units[i].fn = "Missing"

\* the three loops that call prefixUserEventWithView on the body of each block
RECURSIVE prefixTestBlocks(_, _)
prefixTestBlocks(t, i) ==
  IF i > Len(t.units) THEN t
  ELSE IF ~IsAddClearTestBlock(t.units[i]) \/ ~IsFunctionNode(t.units[i])
    THEN prefixTestBlocks(t, i + 1)
  ELSE LET scope == CallbackScope(t.units, i)
           found == hasViewDeclarationFromRenderMethods(t.units, scope)
       IN prefixTestBlocks(
            [t EXCEPT !.units = prefixUserEventWithView(t.units, scope),
                      !.before = [u \in 1..Len(t.units) |->
                                    IF found /\ u \in scope \ {i}
                                      THEN [n \in 1..Len(@[u]) |-> PrefixStmt(@[u][n])]
                                      ELSE @[u]]],
            i + 1)

\* callee: user.advancedType with `user` an identifier; the property is renamed
advancedTypeToType(s) ==
  IF CalleeObjectNamed(s, "user") /\ s.property = <<"advancedType">>
    THEN [s EXCEPT !.property = <<"type">>] ELSE s

\* printing and parsing of a file with its inserted statements
PrintPhase(t) ==
  [imports |-> t.imports, units |-> toSource(t).units,
   before |-> [u \in 1..Len(t.units) |-> [n \in 1..Len(t.before[u]) |-> PrintStmt(t.before[u][n])]]]
ParsePhase(f) ==
  [imports |-> f.imports, units |-> Parse([imports |-> f.imports, units |-> f.units]).units,
   before |-> [u \in 1..Len(f.units) |-> [n \in 1..Len(f.before[u]) |-> ParseStmt(f.before[u][n])]]]

\* files as the first phase leaves them, or as they were written by hand
\* with the `--lines` option as jscodeshift hands it over: absent, a number, or
\* a string given as the characters of its comma-separated parts
PhaseFiles ==
  LET LinesNumber(n) == [type |-> "number", value |-> n, parts |-> <<>>]
      LinesString(parts) == [type |-> "string", value |-> 0, parts |-> parts]
      LineOptions ==
        {[type |-> "undefined", value |-> 0, parts |-> <<>>],
         LinesNumber(11), LinesNumber(0),
         LinesString(<< <<"1", "1">> >>), LinesString(<< <<"1", "2">>, <<"1", "1">> >>),
         LinesString(<< <<"2", "2">> >>), LinesString(<< <<" ", "1", "2", "p", "x">> >>),
         LinesString(<< <<"x">> >>), LinesString(<< <<"1", "1">>, <<"x">> >>),
         LinesString(<< <<"9", "9">> >>)}
      typed == TCall(<<"user", "advancedType">>, <<el, StrLit("abc")>>, 1)
      viewTyped == TCall(<<"view", "user", "advancedType">>, <<el, StrLit("abc")>>, 1)
      userFromSetup == TDecl("ObjectPattern", <<"user">>, <<"setup">>, <<>>, 0)
      stmts == {typed, viewTyped,
                TCall(<<"user", "advancedType">>, <<el, StrLit("abc")>>, 0),
                TCall(<<"user", "advancedType">>, <<>>, 1),
                TCall(<<"user", "click">>, <<el>>, 1),
                TDecl("Identifier", <<"r">>, <<"user", "advancedType">>, <<el, StrLit("abc")>>, 1),
                [TCall(<<"user", "advancedType">>, <<el, StrLit("abc")>>, 0) EXCEPT !.kind = "return"]}
      bodies == {<<d>> \o rest :
                   d \in {userFromSetup, TDecl("Identifier", <<"view">>, <<"render">>, <<>>, 0)},
                   rest \in {<<s>> : s \in stmts} \cup {<<s, x>> : s \in stmts, x \in {typed, viewTyped}}}
      units ==
        {<<TestBlock(form, TRUE, b)>> : form \in {"it", "test", "it.skip", "it.each()"}, b \in bodies}
        \cup {<<Callback("describe", 0, FALSE, <<>>), [TestBlock("it", TRUE, b) EXCEPT !.parent = 1]>> :
                b \in bodies}
        \cup {<<Unit("FunctionDeclaration", "fill", "FunctionDeclaration", 0, TRUE, Params(<<"user">>),
                     "BlockStatement", <<s>>),
                TestBlock("it", TRUE, <<userFromSetup, TCall(<<"fill">>, <<Ident("user")>>, 1)>>)>> :
                s \in stmts}
        \cup {<<TestBlock("it", TRUE, <<typed>>),
                Unit("TestCall", "it", "Missing", 0, FALSE, <<>>, "", <<>>)>>}
  IN {[imports |-> <<Import(TestingLibraryUserEvent, <<"userEvent">>)>>, units |-> us,
       before |-> [u \in 1..Len(us) |-> <<>>], lines |-> ls] : us \in units, ls \in LineOptions}

\* a run of the later phases on a file: the second phase only runs on the
\* files of the report, the third on every file
PhaseInit ==
  /\ src \in PhaseFiles
  /\ tree = ParsePhase([imports |-> src.imports, units |-> src.units, before |-> src.before])
  /\ pc \in {"clear.lines", "rename"}
  /\ queue = <<>>
  /\ modified = FALSE
  /\ output = NoOutput
  /\ failed = FALSE
  /\ pass = 1
  /\ outputs = <<[imports |-> src.imports, units |-> src.units, before |-> src.before]>>

\* const linesToProcess = getLinesToProcess(options.lines)
GetLinesToProcess ==
  /\ pc = "clear.lines"
  /\ queue' = getLinesToProcess(src.lines)
  /\ pc' = "clear.calls"
  /\ UNCHANGED <<src, tree, modified, output, failed, pass, outputs>>

\* advancedTypeCalls.forEach(...)
AddClearBeforeType ==
  /\ pc = "clear.calls"
  /\ tree' = addClearBeforeType(tree, queue)
  /\ modified' = (tree' # tree)
  /\ pc' = "clear.prefix"
  /\ UNCHANGED <<src, queue, output, failed, pass, outputs>>

\* the three loops over the test blocks
PrefixTestBlocks ==
  /\ pc = "clear.prefix"
  /\ ~getBodyThrows(tree.units)
  /\ tree' = prefixTestBlocks(tree, 1)
  /\ pc' = "clear.print"
  /\ UNCHANGED <<src, queue, modified, output, failed, pass, outputs>>

\* catch (error) { return file.source }
PrefixTestBlocksFails ==
  /\ pc = "clear.prefix"
  /\ getBodyThrows(tree.units)
  /\ failed' = TRUE
  /\ output' = outputs[Len(outputs)]
  /\ outputs' = Append(outputs, output')
  /\ pc' = "rename"
  /\ UNCHANGED <<src, tree, queue, modified, pass>>

\* return root.toSource({ quote: 'single' })
AddClearToSource ==
  /\ pc = "clear.print"
  /\ output' = PrintPhase(tree)
  /\ outputs' = Append(outputs, output')
  /\ pc' = "rename"
  /\ UNCHANGED <<src, tree, queue, modified, failed, pass>>

\* advanced-type-to-type.ts on the file the earlier phase left on disk
AdvancedTypeToType ==
  /\ pc = "rename"
  /\ LET root == ParsePhase(outputs[Len(outputs)])
     IN tree' = [root EXCEPT
                   !.units = [i \in 1..Len(@) |->
                                [@[i] EXCEPT !.body = [k \in 1..Len(@) |-> advancedTypeToType(@[k])]]],
                   !.before = [u \in 1..Len(@) |->
                                 [n \in 1..Len(@[u]) |-> advancedTypeToType(@[u][n])]]]
  /\ pc' = "rename.print"
  /\ UNCHANGED <<src, queue, modified, output, failed, pass, outputs>>

RenameToSource ==
  /\ pc = "rename.print"
  /\ output' = PrintPhase(tree)
  /\ outputs' = Append(outputs, output')
  /\ pc' = "done"
  /\ UNCHANGED <<src, tree, queue, modified, failed, pass>>

PhaseNext ==
  \/ GetLinesToProcess
  \/ AddClearBeforeType
  \/ PrefixTestBlocks
  \/ PrefixTestBlocksFails
  \/ AddClearToSource
  \/ AdvancedTypeToType
  \/ RenameToSource

PhaseSpec == PhaseInit /\ [][PhaseNext]_vars

\* the file printed by add-clear-before-type, once it has printed it (the
\* rename adds one more text)
ClearOutput == outputs[2]
AddClearPrinted ==
  ~failed /\ Len(outputs) = (IF pc = "done" THEN 3 ELSE 2) /\ pc \in {"rename", "rename.print", "done"}
\* the advancedType calls of the input, and the lines the option lists
AdvancedTypeAt(i, k) ==
  /\ src.units[i].body[k].callee[Len(src.units[i].body[k].callee)] = "advancedType"
  /\ Len(src.units[i].body[k].callee) > 1
LinesIsList ==
  /\ src.lines.type = "string"
  /\ \A n \in 1..Len(src.lines.parts) : \A c \in 1..Len(src.lines.parts[n]) :
        src.lines.parts[n][c] \in {"0", "1", "2", "3", "4", "5", "6", "7", "8", "9"}
Listed(i, k) ==
  \E n \in 1..Len(src.lines.parts) : parseInt(src.lines.parts[n], 1, -1) = startLine(i, k)
\* the `view.` qualification aside
Unqualified(t) ==
  IF Len(t.callee) = 3 /\ t.callee[1] = "view" /\ t.callee[2] = "user"
    THEN [t EXCEPT !.callee = <<"user", t.callee[3]>>] ELSE t
UnqualifiedBody(body) == [k \in 1..Len(body) |-> Unqualified(body[k])]
ClearOf(t) == TCall(<<"user", "clear">>, <<t.args[1]>>, 1)
\* the body of unit i with a clear before each statement of Gets
RECURSIVE ExpectedBody(_, _, _)
ExpectedBody(i, k, Gets) ==
  IF k > Len(src.units[i].body) THEN <<>>
  ELSE (IF <<i, k>> \in Gets THEN <<ClearOf(src.units[i].body[k])>> ELSE <<>>)
       \o <<src.units[i].body[k]>> \o ExpectedBody(i, k + 1, Gets)

\* C23: when `lines` is a comma-separated list of integers, an advancedType
\* call that starts on a line outside the list is printed as it was written and
\* no clear is inserted for it; when `lines` is absent, every advancedType call
\* that is an expression statement with a first argument gets a clear.
C23_LineRestriction ==
  LET Gets == {p \in Positions(src.units, 1..Len(src.units)) :
                 /\ AdvancedTypeAt(p[1], p[2])
                 /\ src.units[p[1]].body[p[2]].kind = "call"
                 /\ Len(src.units[p[1]].body[p[2]].args) > 0
                 /\ src.lines.type = "undefined" \/ Listed(p[1], p[2])}
      \* where the k-th statement of unit i stands once the clears are in
      Pos(i, k) == k + Cardinality({p \in Gets : p[1] = i /\ p[2] <= k})
  IN AddClearPrinted /\ (LinesIsList \/ src.lines.type = "undefined")
     => /\ \A i \in 1..Len(src.units) :
             UnqualifiedBody(ClearOutput.units[i].body) = UnqualifiedBody(ExpectedBody(i, 1, Gets))
        /\ \A u \in 1..Len(src.units) : \A n \in 1..Len(ClearOutput.before[u]) :
             \E i \in 1..Len(src.units) : \E k \in 1..Len(src.units[i].body) :
                /\ AdvancedTypeAt(i, k)
                /\ src.lines.type = "undefined" \/ Listed(i, k)
                /\ Unqualified(ClearOutput.before[u][n]) = ClearOf(src.units[i].body[k])
        /\ LinesIsList =>
             \A i \in 1..Len(src.units) : \A k \in 1..Len(src.units[i].body) :
                AdvancedTypeAt(i, k) /\ ~Listed(i, k)
                  => ClearOutput.units[i].body[Pos(i, k)] = src.units[i].body[k]

\* C24: every processed advancedType(el, ...) call, whatever statement holds
\* it, has exactly one `await user.clear(el)` right before that statement in
\* the same block, and the statement itself is kept.
C24_ClearPlacement ==
  LET Gets == {p \in Positions(src.units, 1..Len(src.units)) :
                 /\ AdvancedTypeAt(p[1], p[2])
                 /\ Len(src.units[p[1]].body[p[2]].args) > 0
                 /\ src.lines.type = "undefined" \/ Listed(p[1], p[2])}
  IN AddClearPrinted /\ (LinesIsList \/ src.lines.type = "undefined")
     => /\ \A i \in 1..Len(src.units) :
             UnqualifiedBody(ClearOutput.units[i].body) = UnqualifiedBody(ExpectedBody(i, 1, Gets))
        /\ \A u \in 1..Len(src.units) : ClearOutput.before[u] = <<>>

\* C25: after the rename has printed the file, every call that was
\* user.advancedType(...) or view.user.advancedType(...) in the file it read is
\* a call of `type` with the same arguments.
C25_RenameComplete ==
  pc = "done" =>
    LET read == outputs[Len(outputs) - 1]
        Renamed(t) ==
          IF t.callee \in {<<"user", "advancedType">>, <<"view", "user", "advancedType">>}
            THEN [t EXCEPT !.callee = SubSeq(t.callee, 1, Len(t.callee) - 1) \o <<"type">>]
            ELSE t
    IN /\ \A i \in 1..Len(read.units) :
            output.units[i].body = [k \in 1..Len(read.units[i].body) |-> Renamed(read.units[i].body[k])]
       /\ \A u \in 1..Len(read.units) :
            output.before[u] = [n \in 1..Len(read.before[u]) |-> Renamed(read.before[u][n])]


(***************************************************************************)
(* migrate.js: main.  Here src is what the run finds (the spec files of    *)
(* the folder and what is missing), pass the number of the step of main    *)
(* (1 phase 1, 2 test run, 3 phase 2, 4 phase 3, 5 test run), queue the    *)
(* commands the step has still to run, tree the command whose child        *)
(* process runs, output the report read by phase 2, and outputs the log of *)
(* the commands started and exited.                                        *)
(***************************************************************************)
\* the awaited steps of main
Steps == <<"phase 1", "tests", "phase 2", "phase 3", "tests">>

MigrateInit ==
  /\ src \in [files : {<<>>, <<"a.spec.tsx">>, <<"a.spec.tsx", "b.spec.tsx">>},
              missing : {"none", "folder", "dist/fire-event-to-user-event.js",
                         "dist/advanced-type-to-type.js"}]
  /\ tree = ""
  /\ pc = "migrate.enter"
  /\ queue = <<>>
  /\ modified = FALSE
  /\ output = NoOutput
  /\ failed = FALSE
  /\ pass = 1
  /\ outputs = <<>>

\* the head of runPhase1 / runJestTests / runPhase2 / runPhase3: the checks
\* that end the process, and the list of commands.  The report is what
\* require() and gatherPlacesToMigrateToUserClear give: the files with an
\* '[advancedType] Has value' entry, or an error.
EnterStep ==
  /\ pc = "migrate.enter"
  /\ IF \/ Steps[pass] = "phase 1"
           /\ src.missing \in {"folder", "dist/fire-event-to-user-event.js"}
        \/ Steps[pass] = "phase 3"
           /\ src.missing \in {"folder", "dist/advanced-type-to-type.js"}
       THEN pc' = "exit(1)" /\ UNCHANGED <<queue, output>>
       ELSE /\ pc' = "migrate.idle"
            /\ \E report \in [readable : {TRUE},
                               places : {<<>>, <<"a.spec.tsx">>, <<"b.spec.tsx", "a.spec.tsx">>,
                                         <<"c.spec.tsx">>}]
                              \cup {[readable |-> FALSE, places |-> <<>>]} :
                 /\ output' = IF Steps[pass] = "phase 2" THEN report ELSE output
                 /\ queue' = CASE Steps[pass] \in {"phase 1", "phase 3"} -> src.files
                                [] Steps[pass] = "tests" -> <<"jest">>
                                [] Steps[pass] = "phase 2" -> report.places
  /\ UNCHANGED <<src, tree, modified, failed, pass, outputs>>

\* console.log(`Executing: ${command}`); exec(command, ...)
StartCommand ==
  /\ pc = "migrate.idle" /\ queue # <<>>
  /\ tree' = Head(queue)
  /\ queue' = Tail(queue)
  /\ outputs' = Append(outputs, [step |-> pass, command |-> Head(queue), event |-> "start", err |-> FALSE])
  /\ pc' = "migrate.running"
  /\ UNCHANGED <<src, modified, output, failed, pass>>

\* an exit that rejects out of main
CommandExitsAndRejects ==
  /\ pc = "migrate.running"
  /\ \E err \in BOOLEAN :
       /\ outputs' = Append(outputs, [step |-> pass, command |-> tree, event |-> "exit", err |-> err])
       /\ failed' = (failed \/ err)
       /\ pc' = IF err THEN "done" ELSE "migrate.idle"
  /\ tree' = ""
  /\ UNCHANGED <<src, queue, modified, output, pass>>

\* the callback of exec logs the error and resolves; runJestTests catches the
\* rejection of a failed test run
CommandExits ==
  /\ pc = "migrate.running"
  /\ \E err \in BOOLEAN :
       /\ outputs' = Append(outputs, [step |-> pass, command |-> tree, event |-> "exit", err |-> err])
       /\ failed' = (failed \/ err)
  /\ tree' = ""
  /\ pc' = "migrate.idle"
  /\ UNCHANGED <<src, queue, modified, output, pass>>

\* the awaited step returns and main goes on to the next one
LeaveStep ==
  /\ pc = "migrate.idle" /\ queue = <<>>
  /\ IF pass = Len(Steps) THEN pc' = "done" /\ pass' = pass
                        ELSE pc' = "migrate.enter" /\ pass' = pass + 1
  /\ UNCHANGED <<src, tree, queue, modified, output, failed, outputs>>

MigrateNext ==
  \/ EnterStep
  \/ StartCommand
  \/ CommandExits
  \/ LeaveStep

MigrateSpec == MigrateInit /\ [][MigrateNext]_vars

\* the report phase 2 has read, if it has
ReportRead == IF "places" \in DOMAIN output THEN output ELSE [readable |-> FALSE, places |-> <<>>]
\* the commands of the steps before `step`: phase 1 on every file, the test
\* run, phase 2 on the files of the report, phase 3 on every file, the test run
RECURSIVE CommandsBefore(_)
CommandsBefore(step) ==
  IF step <= 1 THEN <<>>
  ELSE LET commands == CASE step - 1 \in {1, 4} -> src.files
                         [] step - 1 \in {2, 5} -> <<"jest">>
                         [] step - 1 = 3 -> ReportRead.places
       IN CommandsBefore(step - 1)
          \o [n \in 1..Len(commands) |-> [step |-> step - 1, command |-> commands[n]]]

\* C30: commands run one at a time (each start is followed by its exit before
\* the next start), and whatever failed so far, the commands started are
\* those of phase 1, the test run, phase 2, phase 3 and the test run, in this
\* order, file by file, with none skipped; a run that ends normally has run
\* them all.
C30_OrchestrationOrder ==
  LET started == [n \in 1..((Len(outputs) + 1) \div 2) |->
                    [step |-> outputs[2 * n - 1].step, command |-> outputs[2 * n - 1].command]]
      planned == IF pc \in {"migrate.enter", "exit(1)"} THEN CommandsBefore(pass)
                 ELSE CommandsBefore(pass + 1)
  IN /\ \A n \in 1..Len(outputs) :
          /\ outputs[n].event = (IF n % 2 = 1 THEN "start" ELSE "exit")
          /\ n % 2 = 0 => /\ outputs[n].command = outputs[n - 1].command
                          /\ outputs[n].step = outputs[n - 1].step
     /\ (pc = "migrate.running") = (Len(outputs) % 2 = 1)
     /\ Len(started) + Len(queue) = Len(planned)
     /\ started = SubSeq(planned, 1, Len(started))
     /\ pc = "done" => started = CommandsBefore(6)

\* a run in which the first file of phase 1 and the first test run failed,
\* and which went on to the end
C30_Witness ==
  /\ pc = "done"
  /\ src.files = <<"a.spec.tsx", "b.spec.tsx">>
  /\ output.places = <<"b.spec.tsx", "a.spec.tsx">>
  /\ Len(outputs) = 16
  /\ outputs[2] = [step |-> 1, command |-> "a.spec.tsx", event |-> "exit", err |-> TRUE]
  /\ outputs[3] = [step |-> 1, command |-> "b.spec.tsx", event |-> "start", err |-> FALSE]
  /\ outputs[6] = [step |-> 2, command |-> "jest", event |-> "exit", err |-> TRUE]
  /\ outputs[7].step = 3


\* C26: within a pass the helper scan is the first step and is over before a
\* test body is rewritten; every `it` block and then every `.each` block is
\* handled, in document order, before the import removal runs; the removal
\* is the one step before the print, and only the print or a failure ends
\* the pass.
C26_PassOrdering ==
  [][ LET Blocks(names) == {i \in 1..Len(tree.units) :
                              tree.units[i].kind = "TestCall" /\ tree.units[i].name \in names}
          Range(q) == {q[n] : n \in 1..Len(q)}
          Ascending(q) == \A m, n \in 1..Len(q) : m < n => q[m] < q[n]
      IN /\ pc = "helpers" =>
              pc' = "addImport" /\ tree'.units = handleHelperFunctions(tree.units).units
         /\ pc = "addImport" => pc' = "findIt" /\ tree'.units = tree.units
         /\ pc = "findIt" =>
              /\ pc' = "forEachIt" /\ tree' = tree
              /\ Range(queue') = Blocks({"it"}) /\ Ascending(queue')
         /\ pc \in {"forEachIt", "forEachEach"} /\ queue # <<>> =>
              /\ tree'.units = handleTestCallback(tree.units, Head(queue))
              /\ tree'.imports = tree.imports
              /\ \/ pc' = pc /\ queue' = Tail(queue)
                 \/ pc' = "done" /\ failed'
         /\ pc = "forEachIt" /\ queue = <<>> =>
              /\ pc' = "forEachEach" /\ tree' = tree
              /\ Range(queue') = Blocks(EachForms) /\ Ascending(queue')
         /\ pc = "forEachEach" /\ queue = <<>> =>
              pc' = "toSource" /\ tree' = removeFireEventImport(tree)
         /\ pc = "toSource" => pc' = "done" /\ ~failed' /\ output' = toSource(tree) /\ tree' = tree
         /\ pc' = "toSource" => pc = "forEachEach" /\ queue = <<>>
         /\ output' # output /\ pc' = "done" => pc = "toSource" \/ failed'
    ]_vars

\* the removal has run, and changed the imports, on a tree in which the helper
\* scan changed a function and the loops rewrote a test block
C26_Witness ==
  /\ pc = "toSource" /\ modified /\ queue = <<>>
  /\ tree.imports # Parse(src).imports
  /\ \E i \in 1..Len(tree.units) :
        tree.units[i].kind = "TestCall" /\ tree.units[i] # Parse(src).units[i]


\* C27: after the helper scan, (a) a helper that became async holds a fireEvent
\* call that was rewritten; (b) a helper without `user` whose fireEvent calls
\* are all unmapped or of the wrong argument count has the `user` parameter
\* and the async flag it had, and the calls to it have the `user` argument
\* and, the helper not being async, no new await; (c) a call that got an await
\* names a function that is async and was not awaited before.
C27_HelperAsyncTracksRewrites ==
  LET pre == Parse(src).units
      post == tree.units
      policyCount(m) == IF m \in {"change", "input", "keyDown", "keyUp"} THEN 2 ELSE 1
      Inside(i) == Positions(pre, SubtreeOf(pre, i))
      FireEventAt(p) == pre[p[1]].body[p[2]].kind = "call" /\ pre[p[1]].body[p[2]].object = <<"fireEvent">>
      NotRewritable(p) ==
        \/ pre[p[1]].body[p[2]].property[1] \notin DOMAIN FIRE_EVENT_TO_USER_EVENT_MAP
        \/ Len(pre[p[1]].body[p[2]].args) # policyCount(pre[p[1]].body[p[2]].property[1])
      IsHelper(i) ==
        /\ pre[i].kind \in {"FunctionDeclaration", "VariableDeclarator"}
        /\ pre[i].name \notin POSSIBLE_SUPPORTED_RENDER_METHODS
        /\ \E p \in Inside(i) : FireEventAt(p)
        /\ ~\E k \in 1..Len(pre[i].params) : pre[i].params[k].name = "user"
      CallsOf(i) == {p \in Positions(pre, 1..Len(pre)) :
                       pre[p[1]].body[p[2]].object = <<>> /\ pre[p[1]].body[p[2]].property = <<pre[i].name>>}
  IN pc = "addImport" /\ pass = 1 =>
       /\ \A i \in 1..Len(pre) :
            IsHelper(i) /\ post[i].async /\ ~pre[i].async
              => \E p \in Inside(i) : FireEventAt(p) /\ post[p[1]].body[p[2]] # pre[p[1]].body[p[2]]
       /\ \A i \in 1..Len(pre) :
            IsHelper(i) /\ (\A p \in Inside(i) : FireEventAt(p) => NotRewritable(p))
              => /\ \E k \in 1..Len(post[i].params) : post[i].params[k].name = "user"
                 /\ post[i].async = pre[i].async
                 /\ \A p \in CallsOf(i) :
                      /\ \E k \in 1..Len(post[p[1]].body[p[2]].args) :
                            post[p[1]].body[p[2]].args[k] = Ident("user")
                      /\ ~pre[i].async => post[p[1]].body[p[2]].awaits = pre[p[1]].body[p[2]].awaits
       /\ \A p \in Positions(pre, 1..Len(pre)) :
            pre[p[1]].body[p[2]].object = <<>>
            /\ post[p[1]].body[p[2]].awaits > pre[p[1]].body[p[2]].awaits
              => /\ pre[p[1]].body[p[2]].awaits = 0
                 /\ \E i \in 1..Len(post) :
                       /\ post[i].kind \in {"FunctionDeclaration", "VariableDeclarator"}
                       /\ post[i].name = pre[p[1]].body[p[2]].property[1]
                       /\ post[i].async


\* C28: the call-site update of the helper scan changes only the calls whose
\* callee names a function to which this scan gave its `user` parameter; a
\* call of any other function is the same statement after the scan.
C28_ModifiedSetScoping ==
  LET pre == Parse(src).units
      post == tree.units
      ModifiedNames ==
        {pre[i].name : i \in {j \in 1..Len(pre) :
            /\ pre[j].kind \in {"FunctionDeclaration", "VariableDeclarator"}
            /\ ~\E k \in 1..Len(pre[j].params) : pre[j].params[k].name = "user"
            /\ \E k \in 1..Len(post[j].params) : post[j].params[k].name = "user"}}
  IN pc = "addImport" /\ pass = 1 =>
       \A p \in Positions(pre, 1..Len(pre)) :
          pre[p[1]].body[p[2]].object = <<>> /\ pre[p[1]].body[p[2]].property[1] \notin ModifiedNames
            => post[p[1]].body[p[2]] = pre[p[1]].body[p[2]]


\* C29: a handled test block in whose body the pass rewrote no fireEvent call
\* and updated no call of a function of the file is the same after the pass:
\* the async flag of its callback, its declarations and its calls, also when
\* the body declares `const view = render(...)`.
C29_UntouchedBodies ==
  LET names == {src.units[i].name : i \in {j \in 1..Len(src.units) :
                   src.units[j].kind \in {"FunctionDeclaration", "VariableDeclarator"}}}
      Watched(t) == t.callee[1] = "fireEvent" \/ (Len(t.callee) = 1 /\ t.callee[1] \in names)
  IN pc = "done" /\ ~failed /\ pass = 1 =>
       \A j \in 1..Len(src.units) :
          /\ src.units[j].kind = "TestCall"
          /\ src.units[j].name \in {"it", "it.each()", "it.each-template"}
          /\ \A i \in SubtreeOf(src.units, j) : \A k \in 1..Len(src.units[i].body) :
                Watched(src.units[i].body[k]) => output.units[i].body[k] = src.units[i].body[k]
          => \A i \in SubtreeOf(src.units, j) : output.units[i] = src.units[i]

=============================================================================
